---- MODULE Spec2Model ----
(***************************************************************************)
(* Verification model of the folklore container library: the TypeScript   *)
(* Optional, Result, Maybe and Future classes in their successive         *)
(* versions, the monad operators, the Swift Optional and Result           *)
(* extensions and the Gleam option and result helpers.                    *)
(* The library is a set of combinators on                                 *)
(* two-variant containers; the state machine below is a caller that       *)
(* builds a container with one of the factories and then issues combinator *)
(* calls on it, recording for every call the receiver, the argument, the  *)
(* callbacks that were invoked (in order, with their arguments), what the *)
(* callback returned and what the combinator returned.                    *)
(***************************************************************************)
EXTENDS Integers, Sequences, FiniteSets, TLC

\* Numbers 0..MaxNum are the numeric payloads the caller draws from.
MaxNum == 1
\* The caller issues at most MaxChain combinator calls on one chain.
MaxChain == 2

(***************************************************************************)
(* JavaScript values.  Every value is a record tagged by t, so that any   *)
(* two values can be compared.                                            *)
(***************************************************************************)
Undefined == [t |-> "undefined"]
Null == [t |-> "null"]
NaN == [t |-> "number", nan |-> TRUE]
Num(n) == [t |-> "number", n |-> n]
Str(s) == [t |-> "string", s |-> s]
Bool(b) == [t |-> "boolean", b |-> b]
ErrorObject(m) == [t |-> "Error", message |-> m]

\* Present plain values: 0, "" and false are the falsy ones.
PlainValues == {Num(i) : i \in 0..MaxNum} \cup {Str(""), Bool(FALSE)}
\* utility/types.ts: Nothing = null | undefined ; Nullable<T> = T | Nothing
Nothing == {Null, Undefined}
Nullable == PlainValues \cup Nothing

\* `x == null` / `x != null` (loose comparison with null)
LooseEqNull(x) == x.t \in {"null", "undefined"}
\* typeof x === 'function'
IsFunction(x) == x.t = "function"
\* x instanceof Promise
IsPromise(x) == x.t = "Promise"
\* JavaScript truthiness of the values the model uses
Truthy(x) ==
  CASE x.t \in {"undefined", "null"} -> FALSE
    [] x.t = "boolean" -> x.b
    [] x.t = "string" -> x.s # ""
    [] x.t = "number" -> x # NaN /\ x.n # 0
    [] OTHER -> TRUE

(***************************************************************************)
(* Outcomes of a call: a returned value or a raised fault.                *)
(***************************************************************************)
Return(v) == [c |-> "return", v |-> v]
Throw(e) == [c |-> "throw", v |-> e]

(***************************************************************************)
(* Promises.  src = "async": the promise of an asynchronous callback,     *)
(* which settles to `will` when the callback's body completes.            *)
(* src = "then": a promise derived with .then(), settled by its reaction. *)
(***************************************************************************)
Pending(src, will) == [t |-> "Promise", st |-> "pending", src |-> src, will |-> will]
Fulfilled(v) == [t |-> "Promise", st |-> "fulfilled", v |-> v]
Rejected(e) == [t |-> "Promise", st |-> "rejected", v |-> e]
IsPending(x) == IsPromise(x) /\ x.st = "pending"
IsSettled(x) == IsPromise(x) /\ x.st # "pending"
Settle(will) == IF will.c = "return" THEN Fulfilled(will.v) ELSE Rejected(will.v)

(***************************************************************************)
(* Caller-supplied callbacks.  mode is "sync" or "async"; body says what  *)
(* the callback computes: "const" returns k, "succ" is x => x + 1,        *)
(* "throw" raises k.                                                      *)
(***************************************************************************)
Fn(mode, body, k) == [t |-> "function", mode |-> mode, body |-> body, k |-> k]

\* x + 1 in JavaScript
PlusOne(x) ==
  CASE x.t = "number" -> IF x = NaN THEN NaN ELSE Num(x.n + 1)
    [] x.t = "string" -> Str(x.s \o "1")
    [] x.t = "boolean" -> Num((IF x.b THEN 1 ELSE 0) + 1)
    [] x.t = "null" -> Num(1)
    [] OTHER -> NaN

Body(f, args) ==
  CASE f.body = "const" -> Return(f.k)
    [] f.body = "succ" -> Return(PlusOne(IF Len(args) > 0 THEN args[1] ELSE Undefined))
    [] OTHER -> Throw(f.k)

\* Calling a callback: an async function never throws synchronously, it
\* returns a promise that settles later to the body's outcome.
Invoke(f, args) ==
  IF f.mode = "async" THEN Return(Pending("async", Body(f, args))) ELSE Body(f, args)

Call(f, args) == [fn |-> f, args |-> args]
NotCalled == [t |-> "notcalled"]

\* What a combinator call did: its outcome, where the returned reference
\* comes from ("this", "payload", "arg", "cb" = what the callback returned,
\* "fresh" = an object the library created, "void"), the callbacks it
\* invoked and what the invoked callback returned.
Did(out, ref, calls, cbret) == [out |-> out, ref |-> ref, calls |-> calls, cbret |-> cbret]
\* Running a callback whose fault propagates to the caller.
Raised(f, args) == Did(Invoke(f, args), "void", <<Call(f, args)>>, NotCalled)

(***************************************************************************)
(* TypeScript Optional<Type>                                              *)
(***************************************************************************)
\* private constructor(private readonly value: Nullable<Type> = undefined)
NewOptional(value) == [t |-> "Optional", value |-> value]

Optional_HasInstance(value) == value.t = "Optional"

Optional_Some(value) == NewOptional(value)

Optional_None == NewOptional(Undefined)


\* Mutation: a truthiness test instead of the comparison with null
Optional_FromNullable_falsy(value) ==
  IF ~Truthy(value) THEN Optional_None ELSE Optional_Some(value)

Optional_FromNullable(value) ==
  IF LooseEqNull(value) THEN Optional_None ELSE Optional_Some(value)


\* Mutation: the provider is evaluated before the receiver is inspected
Optional_otherwise_eager(self, valueOrProvider) ==
  LET fallback == IF IsFunction(valueOrProvider)
                  THEN Invoke(valueOrProvider, <<>>)
                  ELSE Return(valueOrProvider)
      calls == IF IsFunction(valueOrProvider) THEN <<Call(valueOrProvider, <<>>)>> ELSE <<>>
  IN IF fallback.c = "throw" THEN Raised(valueOrProvider, <<>>)
     ELSE IF ~LooseEqNull(self.value)
          THEN Did(Return(self.value), "payload", calls,
                   IF calls = <<>> THEN NotCalled ELSE fallback.v)
          ELSE Did(fallback, IF calls = <<>> THEN "arg" ELSE "cb", calls,
                   IF calls = <<>> THEN NotCalled ELSE fallback.v)

\* Mutation: a provider is handed back without being called
Optional_otherwise_uncalled(self, valueOrProvider) ==
  IF ~LooseEqNull(self.value)
  THEN Did(Return(self.value), "payload", <<>>, NotCalled)
  ELSE Did(Return(valueOrProvider), "arg", <<>>, NotCalled)

Optional_otherwise(self, valueOrProvider) ==
  IF ~LooseEqNull(self.value)
  THEN Did(Return(self.value), "payload", <<>>, NotCalled)
  ELSE IF IsFunction(valueOrProvider)
       THEN LET result == Invoke(valueOrProvider, <<>>)
            IN IF result.c = "throw" THEN Raised(valueOrProvider, <<>>)
               ELSE Did(result, "cb", <<Call(valueOrProvider, <<>>)>>, result.v)
       ELSE Did(Return(valueOrProvider), "arg", <<>>, NotCalled)


\* Mutation: the provider is evaluated before the receiver is inspected
Optional_optionally_eager(self, optionalOrProvider) ==
  LET fallback == IF IsFunction(optionalOrProvider)
                  THEN Invoke(optionalOrProvider, <<>>)
                  ELSE Return(optionalOrProvider)
      calls == IF IsFunction(optionalOrProvider) THEN <<Call(optionalOrProvider, <<>>)>> ELSE <<>>
  IN IF fallback.c = "throw" THEN Raised(optionalOrProvider, <<>>)
     ELSE IF ~LooseEqNull(self.value)
          THEN Did(Return(self), "this", calls,
                   IF calls = <<>> THEN NotCalled ELSE fallback.v)
          ELSE Did(fallback, IF calls = <<>> THEN "arg" ELSE "cb", calls,
                   IF calls = <<>> THEN NotCalled ELSE fallback.v)

Optional_optionally(self, optionalOrProvider) ==
  IF ~LooseEqNull(self.value)
  THEN Did(Return(self), "this", <<>>, NotCalled)
  ELSE IF IsFunction(optionalOrProvider)
       THEN LET result == Invoke(optionalOrProvider, <<>>)
            IN IF result.c = "throw" THEN Raised(optionalOrProvider, <<>>)
               ELSE Did(result, "cb", <<Call(optionalOrProvider, <<>>)>>, result.v)
       ELSE Did(Return(optionalOrProvider), "arg", <<>>, NotCalled)

\* Mutation: the awaited value is wrapped without looking for an Optional
Optional_transform_then_wrapped(awaited) == Optional_FromNullable(awaited)

\* The reaction transform() registers with result.then(...)
Optional_transform_then(awaited) ==
  IF Optional_HasInstance(awaited) THEN awaited ELSE Optional_FromNullable(awaited)


\* Mutation: the transformer's result is always wrapped, never flattened
Optional_transform_nested(self, transformer) ==
  IF LooseEqNull(self.value)
  THEN Did(Return(Optional_None), "fresh", <<>>, NotCalled)
  ELSE LET result == Invoke(transformer, <<self.value>>)
           calls == <<Call(transformer, <<self.value>>)>>
       IN IF result.c = "throw" THEN Raised(transformer, <<self.value>>)
          ELSE IF IsPromise(result.v)
               THEN Did(Return(Pending("then", Return(Undefined))), "fresh", calls, result.v)
               ELSE Did(Return(Optional_Some(result.v)), "fresh", calls, result.v)

\* Mutation: the transformer runs before the receiver is inspected
Optional_transform_unguarded(self, transformer) ==
  LET result == Invoke(transformer, <<self.value>>)
      calls == <<Call(transformer, <<self.value>>)>>
  IN IF result.c = "throw" THEN Raised(transformer, <<self.value>>)
     ELSE IF LooseEqNull(self.value)
          THEN Did(Return(Optional_None), "fresh", calls, result.v)
          ELSE IF IsPromise(result.v)
               THEN Did(Return(Pending("then", Return(Undefined))), "fresh", calls, result.v)
               ELSE IF Optional_HasInstance(result.v)
                    THEN Did(result, "cb", calls, result.v)
                    ELSE Did(Return(Optional_FromNullable(result.v)), "fresh", calls, result.v)

Optional_transform(self, transformer) ==
  IF LooseEqNull(self.value)
  THEN Did(Return(Optional_None), "fresh", <<>>, NotCalled)
  ELSE LET result == Invoke(transformer, <<self.value>>)
           calls == <<Call(transformer, <<self.value>>)>>
       IN IF result.c = "throw" THEN Raised(transformer, <<self.value>>)
          ELSE IF IsPromise(result.v)
               THEN Did(Return(Pending("then", Return(Undefined))), "fresh", calls, result.v)
               ELSE IF Optional_HasInstance(result.v)
                    THEN Did(result, "cb", calls, result.v)
                    ELSE Did(Return(Optional_FromNullable(result.v)), "fresh", calls, result.v)

\* handlers: { some?: ..., none?: ... }; an absent property reads undefined
Handlers(some, none) == [t |-> "object", some |-> some, none |-> none]


\* Mutation: the matching handler is run a second time
Optional_when_twice(self, handlers) ==
  LET h == IF ~LooseEqNull(self.value) THEN handlers.some ELSE handlers.none
      args == IF ~LooseEqNull(self.value) THEN <<self.value>> ELSE <<>>
  IN IF Truthy(h)
     THEN LET result == Invoke(h, args)
          IN IF result.c = "throw" THEN Raised(h, args)
             ELSE IF IsPromise(result.v)
                  THEN Did(result, "cb", <<Call(h, args), Call(h, args)>>, result.v)
                  ELSE Did(Return(Undefined), "void", <<Call(h, args), Call(h, args)>>, result.v)
     ELSE Did(Return(Undefined), "void", <<>>, NotCalled)

\* Mutation: the handler's promise is dropped instead of returned
Optional_when_unawaited(self, handlers) ==
  LET h == IF ~LooseEqNull(self.value) THEN handlers.some ELSE handlers.none
      args == IF ~LooseEqNull(self.value) THEN <<self.value>> ELSE <<>>
  IN IF Truthy(h)
     THEN LET result == Invoke(h, args)
          IN IF result.c = "throw" THEN Raised(h, args)
             ELSE Did(Return(Undefined), "void", <<Call(h, args)>>, result.v)
     ELSE Did(Return(Undefined), "void", <<>>, NotCalled)

Optional_when(self, handlers) ==
  LET h == IF ~LooseEqNull(self.value) THEN handlers.some ELSE handlers.none
      args == IF ~LooseEqNull(self.value) THEN <<self.value>> ELSE <<>>
  IN IF Truthy(h)
     THEN LET result == Invoke(h, args)
          IN IF result.c = "throw" THEN Raised(h, args)
             ELSE IF IsPromise(result.v)
                  THEN Did(result, "cb", <<Call(h, args)>>, result.v)
                  ELSE Did(Return(Undefined), "void", <<Call(h, args)>>, result.v)
     ELSE Did(Return(Undefined), "void", <<>>, NotCalled)

(***************************************************************************)
(* Swift Optional extensions.  A Swift optional is nil or some(x); Swift   *)
(* closures passed to these extensions cannot throw.  Each overload is its *)
(* own definition, as in the source.  An async overload that awaits its    *)
(* closure returns a pending call, which completes (Swift_resume) after    *)
(* the closure has completed.                                              *)
(***************************************************************************)
SwiftNil == [t |-> "nil"]
SwiftSome(x) == [t |-> "some", x |-> x]
SwiftVoid == [t |-> "void"]
SwiftAwait(f, args) ==
  Did(Return(Pending("await", Return(SwiftVoid))), "fresh", <<Call(f, args)>>, Invoke(f, args).v)
\* what a synchronous overload returns for the closure's result x
SwiftWrap(how, x) ==
  CASE how = "some" -> SwiftSome(x)
    [] how = "void" -> SwiftVoid
    [] OTHER -> x
SwiftNow(f, args, how) ==
  Did(Return(SwiftWrap(how, Invoke(f, args).v)), "fresh", <<Call(f, args)>>, Invoke(f, args).v)
SwiftDone(v, ref) == Did(Return(v), ref, <<>>, NotCalled)

\* transform<Transformed>(_ transformer: (Wrapped) -> Transformed) -> Transformed?
Swift_transform_map(self, transformer) ==
  IF self = SwiftNil THEN SwiftDone(SwiftNil, "fresh")
  ELSE SwiftNow(transformer, <<self.x>>, "some")

\* transform<Transformed>(_ transformer: (Wrapped) -> Transformed?) -> Transformed?
Swift_transform_flatMap(self, transformer) ==
  IF self = SwiftNil THEN SwiftDone(SwiftNil, "fresh")
  ELSE SwiftNow(transformer, <<self.x>>, "same")

\* transform<Transformed>(_ transformer: (Wrapped) async -> Transformed) async -> Transformed?
Swift_transform_async(self, transformer) ==
  IF self = SwiftNil THEN SwiftDone(Fulfilled(SwiftNil), "fresh")
  ELSE SwiftAwait(transformer, <<self.x>>)

\* transform<Transformed>(_ transformer: (Wrapped) async -> Transformed?) async -> Transformed?
Swift_transform_async_optional(self, transformer) ==
  IF self = SwiftNil THEN SwiftDone(Fulfilled(SwiftNil), "fresh")
  ELSE SwiftAwait(transformer, <<self.x>>)

\* otherwise(_ default: Wrapped) -> Wrapped
Swift_otherwise_default(self, default) ==
  IF self # SwiftNil THEN SwiftDone(self.x, "payload") ELSE SwiftDone(default, "arg")

\* otherwise(_ provider: () -> Wrapped) -> Wrapped
Swift_otherwise_provider(self, provider) ==
  IF self # SwiftNil THEN SwiftDone(self.x, "payload")
  ELSE SwiftNow(provider, <<>>, "same")

\* otherwise(_ provider: () async -> Wrapped) async -> Wrapped
Swift_otherwise_async(self, provider) ==
  IF self # SwiftNil THEN SwiftDone(Fulfilled(self.x), "payload")
  ELSE SwiftAwait(provider, <<>>)

\* optionally(_ optional: Wrapped?) -> Wrapped?
Swift_optionally_value(self, optional) ==
  IF self # SwiftNil THEN SwiftDone(self, "this") ELSE SwiftDone(optional, "arg")

\* optionally(_ provider: () -> Wrapped?) -> Wrapped?
Swift_optionally_provider(self, provider) ==
  IF self # SwiftNil THEN SwiftDone(self, "this")
  ELSE SwiftNow(provider, <<>>, "same")

\* optionally(_ provider: () async -> Wrapped?) async -> Wrapped?
Swift_optionally_async(self, provider) ==
  IF self # SwiftNil THEN SwiftDone(Fulfilled(self), "this")
  ELSE SwiftAwait(provider, <<>>)

\* when(something action: (Wrapped) -> Void)
Swift_when_something(self, action) ==
  IF self # SwiftNil THEN SwiftNow(action, <<self.x>>, "void")
  ELSE SwiftDone(SwiftVoid, "void")

\* when(nothing action: () -> Void)
Swift_when_nothing(self, action) ==
  IF self = SwiftNil THEN SwiftNow(action, <<>>, "void")
  ELSE SwiftDone(SwiftVoid, "void")

\* when(something something_action: (Wrapped) -> Void, nothing nothing_action: () -> Void)
Swift_when_both(self, something_action, nothing_action) ==
  IF self # SwiftNil THEN SwiftNow(something_action, <<self.x>>, "void")
  ELSE SwiftNow(nothing_action, <<>>, "void")

\* when(something action: (Wrapped) async -> Void) async
Swift_when_something_async(self, action) ==
  IF self # SwiftNil THEN SwiftAwait(action, <<self.x>>)
  ELSE SwiftDone(Fulfilled(SwiftVoid), "void")

\* when(nothing action: () async -> Void) async
Swift_when_nothing_async(self, action) ==
  IF self = SwiftNil THEN SwiftAwait(action, <<>>)
  ELSE SwiftDone(Fulfilled(SwiftVoid), "void")

\* when(something:nothing:) async
Swift_when_both_async(self, something_action, nothing_action) ==
  IF self # SwiftNil THEN SwiftAwait(something_action, <<self.x>>)
  ELSE SwiftAwait(nothing_action, <<>>)

\* The value an awaiting async overload returns once its closure completed
\* with x: `return await transformer(wrapped)` in an overload declared to
\* return Transformed? promotes a plain x to some(x).
Swift_resume(op, ov, x) ==
  CASE op = "transform" /\ ov = "async" -> SwiftSome(x)
    [] op = "when" -> SwiftVoid
    [] OTHER -> x

\* Overload resolution by the static type of the argument
SwiftReturnsOptional(f) == f.body = "const" /\ f.k.t \in {"nil", "some"}

Swift_otherwise(self, a) ==
  IF ~IsFunction(a) THEN Swift_otherwise_default(self, a)
  ELSE IF a.mode = "sync" THEN Swift_otherwise_provider(self, a)
       ELSE Swift_otherwise_async(self, a)

Swift_optionally(self, a) ==
  IF ~IsFunction(a) THEN Swift_optionally_value(self, a)
  ELSE IF a.mode = "sync" THEN Swift_optionally_provider(self, a)
       ELSE Swift_optionally_async(self, a)

Swift_transform(self, f) ==
  IF f.mode = "sync"
  THEN IF SwiftReturnsOptional(f) THEN Swift_transform_flatMap(self, f)
       ELSE Swift_transform_map(self, f)
  ELSE IF SwiftReturnsOptional(f) THEN Swift_transform_async_optional(self, f)
       ELSE Swift_transform_async(self, f)

Swift_when(self, h) ==
  IF h.none = Undefined
  THEN IF h.some.mode = "sync" THEN Swift_when_something(self, h.some)
       ELSE Swift_when_something_async(self, h.some)
  ELSE IF h.some = Undefined
       THEN IF h.none.mode = "sync" THEN Swift_when_nothing(self, h.none)
            ELSE Swift_when_nothing_async(self, h.none)
       ELSE IF h.some.mode = "sync" THEN Swift_when_both(self, h.some, h.none)
            ELSE Swift_when_both_async(self, h.some, h.none)

SwiftOverload(f) ==
  IF ~IsFunction(f) THEN "value"
  ELSE IF f.mode = "sync" THEN (IF SwiftReturnsOptional(f) THEN "flatMap" ELSE "map")
       ELSE (IF SwiftReturnsOptional(f) THEN "async_optional" ELSE "async")

(***************************************************************************)
(* Swift Result extensions.  A Result is success(v) or failure(e).  Only   *)
(* the body handed to Catching may throw.  As for Optional, an overload   *)
(* that awaits its closure returns a pending call, which completes        *)
(* (SwiftResult_resume) after the closure has completed.                  *)
(***************************************************************************)
SwiftSuccess(v) == [t |-> "success", v |-> v]
SwiftFailure(e) == [t |-> "failure", e |-> e]
SwiftError(m) == [t |-> "swift.Error", m |-> m]

\* static func Catching(_ body: () throws -> Success) -> Result<Success, Failure>
SwiftResult_Catching(body) ==
  LET result == Invoke(body, <<>>)
  IN IF result.c = "throw"
     THEN Did(Return(SwiftFailure(result.v)), "fresh", <<Call(body, <<>>)>>, NotCalled)
     ELSE Did(Return(SwiftSuccess(result.v)), "fresh", <<Call(body, <<>>)>>, result.v)

\* static func Catching(_ body: () async throws -> Success) async -> Result<Success, Failure>
SwiftResult_Catching_async(body) == SwiftAwait(body, <<>>)

\* Mutation: a failed recovery reports an error of its own
SwiftResult_recovered_replaced(self, recovered) ==
  IF recovered # SwiftNil THEN SwiftSuccess(recovered.x)
  ELSE SwiftFailure(SwiftError("unrecoverable"))

\* if let recovered = recovery(error) { .success(recovered) } else { .failure(error) }
SwiftResult_recovered(self, recovered) ==
  IF recovered # SwiftNil THEN SwiftSuccess(recovered.x) ELSE SwiftFailure(self.e)

\* Mutation: the recovery closure runs whatever the receiver's variant
SwiftResult_recover_value_always(self, recovery) ==
  IF self.t = "success"
  THEN Did(Return(self), "this", <<Call(recovery, <<self.v>>)>>, Invoke(recovery, <<self.v>>).v)
  ELSE Did(Return(SwiftResult_recovered(self, Invoke(recovery, <<self.e>>).v)), "fresh",
           <<Call(recovery, <<self.e>>)>>, Invoke(recovery, <<self.e>>).v)

\* recover(_ recovery: (Failure) -> Success?) -> Result<Success, Failure>
SwiftResult_recover_value(self, recovery) ==
  IF self.t = "success" THEN SwiftDone(self, "this")
  ELSE Did(Return(SwiftResult_recovered(self, Invoke(recovery, <<self.e>>).v)), "fresh",
           <<Call(recovery, <<self.e>>)>>, Invoke(recovery, <<self.e>>).v)

\* recover<NewFailure>(_ recovery: (Failure) -> Result<Success, NewFailure>) -> Result<Success, NewFailure>
SwiftResult_recover_result(self, recovery) ==
  IF self.t = "success" THEN SwiftDone(SwiftSuccess(self.v), "fresh")
  ELSE SwiftNow(recovery, <<self.e>>, "same")

\* recover(_ recovery: (Failure) async -> Success?) async -> Result<Success, Failure>
SwiftResult_recover_async(self, recovery) ==
  IF self.t = "success" THEN SwiftDone(Fulfilled(self), "this")
  ELSE SwiftAwait(recovery, <<self.e>>)

\* recover<NewFailure>(_ recovery: (Failure) async -> Result<Success, NewFailure>) async -> Result<Success, NewFailure>
SwiftResult_recover_async_result(self, recovery) ==
  IF self.t = "success" THEN SwiftDone(Fulfilled(SwiftSuccess(self.v)), "fresh")
  ELSE SwiftAwait(recovery, <<self.e>>)

\* reframe<NewFailure>(_ transformer: (Failure) -> NewFailure) -> Result<Success, NewFailure>
SwiftResult_reframe_plain(self, transformer) ==
  IF self.t = "success" THEN SwiftDone(SwiftSuccess(self.v), "fresh")
  ELSE Did(Return(SwiftFailure(Invoke(transformer, <<self.e>>).v)), "fresh",
           <<Call(transformer, <<self.e>>)>>, Invoke(transformer, <<self.e>>).v)

\* Mutation: the transformer's Result is wrapped as an error instead of returned
SwiftResult_reframe_result_wrapped(self, transformer) ==
  IF self.t = "success" THEN SwiftDone(SwiftSuccess(self.v), "fresh")
  ELSE Did(Return(SwiftFailure(Invoke(transformer, <<self.e>>).v)), "fresh",
           <<Call(transformer, <<self.e>>)>>, Invoke(transformer, <<self.e>>).v)

\* reframe<NewFailure>(_ transformer: (Failure) -> Result<Success, NewFailure>) -> Result<Success, NewFailure>
SwiftResult_reframe_result(self, transformer) ==
  IF self.t = "success" THEN SwiftDone(SwiftSuccess(self.v), "fresh")
  ELSE SwiftNow(transformer, <<self.e>>, "same")

\* reframe<NewFailure>(_ transformer: (Failure) async -> NewFailure) async -> Result<Success, NewFailure>
SwiftResult_reframe_async(self, transformer) ==
  IF self.t = "success" THEN SwiftDone(Fulfilled(SwiftSuccess(self.v)), "fresh")
  ELSE SwiftAwait(transformer, <<self.e>>)

\* reframe<NewFailure>(_ transformer: (Failure) async -> Result<Success, NewFailure>) async -> Result<Success, NewFailure>
SwiftResult_reframe_async_result(self, transformer) ==
  IF self.t = "success" THEN SwiftDone(Fulfilled(SwiftSuccess(self.v)), "fresh")
  ELSE SwiftAwait(transformer, <<self.e>>)

\* A synchronous when overload ran `action` and returns self
SwiftResult_tapped(self, action, args) ==
  Did(Return(self), "this", <<Call(action, args)>>, Invoke(action, args).v)
\* An asynchronous when overload awaits `action` before it returns self
SwiftResult_tapping(self, action, args) ==
  Did(Return(Pending("await", Return(self))), "this", <<Call(action, args)>>, Invoke(action, args).v)

\* when(success action: (Success) -> Void) -> Self
SwiftResult_when_success(self, action) ==
  IF self.t = "success" THEN SwiftResult_tapped(self, action, <<self.v>>)
  ELSE SwiftDone(self, "this")

\* when(failure action: (Failure) -> Void) -> Self
SwiftResult_when_failure(self, action) ==
  IF self.t = "failure" THEN SwiftResult_tapped(self, action, <<self.e>>)
  ELSE SwiftDone(self, "this")

\* Mutation: both handlers run
SwiftResult_when_both_each(self, success_action, failure_action) ==
  Did(Return(self), "this",
      <<Call(success_action, <<self>>), Call(failure_action, <<self>>)>>, SwiftVoid)

\* when(success success_action: (Success) -> Void, failure failure_action: (Failure) -> Void) -> Self
SwiftResult_when_both(self, success_action, failure_action) ==
  IF self.t = "success" THEN SwiftResult_tapped(self, success_action, <<self.v>>)
  ELSE SwiftResult_tapped(self, failure_action, <<self.e>>)

\* when(success action: (Success) async -> Void) async -> Self
SwiftResult_when_success_async(self, action) ==
  IF self.t = "success" THEN SwiftResult_tapping(self, action, <<self.v>>)
  ELSE SwiftDone(Fulfilled(self), "this")

\* when(failure action: (Failure) async -> Void) async -> Self
SwiftResult_when_failure_async(self, action) ==
  IF self.t = "failure" THEN SwiftResult_tapping(self, action, <<self.e>>)
  ELSE SwiftDone(Fulfilled(self), "this")

\* when(success: (Success) async -> Void, failure: (Failure) async -> Void) async -> Self
SwiftResult_when_both_async(self, success_action, failure_action) ==
  IF self.t = "success" THEN SwiftResult_tapping(self, success_action, <<self.v>>)
  ELSE SwiftResult_tapping(self, failure_action, <<self.e>>)

\* otherwise(_ default: Success) -> Success
SwiftResult_otherwise_default(self, default) ==
  IF self.t = "success" THEN SwiftDone(self.v, "payload") ELSE SwiftDone(default, "arg")

\* otherwise(_ provider: () -> Success) -> Success
SwiftResult_otherwise_provider(self, provider) ==
  IF self.t = "success" THEN SwiftDone(self.v, "payload")
  ELSE SwiftNow(provider, <<>>, "same")

\* Mutation: the provider is not given the error
SwiftResult_otherwise_error_provider_blind(self, provider) ==
  IF self.t = "success" THEN SwiftDone(self.v, "payload")
  ELSE SwiftNow(provider, <<>>, "same")

\* otherwise(_ provider: (Failure) -> Success) -> Success
SwiftResult_otherwise_error_provider(self, provider) ==
  IF self.t = "success" THEN SwiftDone(self.v, "payload")
  ELSE SwiftNow(provider, <<self.e>>, "same")

\* otherwise(_ provider: () async -> Success) async -> Success
SwiftResult_otherwise_async(self, provider) ==
  IF self.t = "success" THEN SwiftDone(Fulfilled(self.v), "payload")
  ELSE SwiftAwait(provider, <<>>)

\* otherwise(_ provider: (Failure) async -> Success) async -> Success
SwiftResult_otherwise_error_async(self, provider) ==
  IF self.t = "success" THEN SwiftDone(Fulfilled(self.v), "payload")
  ELSE SwiftAwait(provider, <<self.e>>)

\* Mutation: the success value is dropped
SwiftResult_transmute_dropped(self) == SwiftDone(SwiftNil, "fresh")

\* transmute() -> Success?
SwiftResult_transmute(self) ==
  IF self.t = "success" THEN SwiftDone(SwiftSome(self.v), "fresh")
  ELSE SwiftDone(SwiftNil, "fresh")

\* transmute(_ target: TransmuteTarget) -> Failure?  (the one target is .error)
SwiftResult_transmute_error(self) ==
  IF self.t = "success" THEN SwiftDone(SwiftNil, "fresh")
  ELSE SwiftDone(SwiftSome(self.e), "fresh")

\* Optional.transmute<E: Error>(as error: E) -> Result<Wrapped, E>
Swift_transmute_as(self, error) ==
  IF self # SwiftNil THEN SwiftDone(SwiftSuccess(self.x), "fresh")
  ELSE SwiftDone(SwiftFailure(error), "fresh")

\* What an awaiting overload returns once its closure has completed with
\* `done` (a settled promise; only Catching's body can complete by throwing)
SwiftResult_resume(op, ov, self, done) ==
  CASE op = "Catching" ->
         IF done.st = "fulfilled" THEN SwiftSuccess(done.v) ELSE SwiftFailure(done.v)
    [] op = "recover" /\ ov = "async" -> SwiftResult_recovered(self, done.v)
    [] op = "reframe" /\ ov = "async" -> SwiftFailure(done.v)
    [] op = "when" -> self
    [] OTHER -> done.v

\* Overload resolution by the static type of the closure
SwiftReturnsResult(f) == f.body = "const" /\ f.k.t \in {"success", "failure"}

SwiftResultOverload(f) ==
  IF f.mode = "sync" THEN (IF SwiftReturnsResult(f) THEN "result" ELSE "plain")
  ELSE (IF SwiftReturnsResult(f) THEN "async_result" ELSE "async")

SwiftResult_recover(self, f) ==
  IF f.mode = "sync"
  THEN IF SwiftReturnsResult(f) THEN SwiftResult_recover_result(self, f)
       ELSE SwiftResult_recover_value(self, f)
  ELSE IF SwiftReturnsResult(f) THEN SwiftResult_recover_async_result(self, f)
       ELSE SwiftResult_recover_async(self, f)

SwiftResult_reframe(self, f) ==
  IF f.mode = "sync"
  THEN IF SwiftReturnsResult(f) THEN SwiftResult_reframe_result(self, f)
       ELSE SwiftResult_reframe_plain(self, f)
  ELSE IF SwiftReturnsResult(f) THEN SwiftResult_reframe_async_result(self, f)
       ELSE SwiftResult_reframe_async(self, f)

\* The handlers named at a when call site (Undefined = label not given)
ResultHandlers(success, failure) == [t |-> "labels", success |-> success, failure |-> failure]

SwiftResult_when(self, h) ==
  IF h.failure = Undefined
  THEN IF h.success.mode = "sync" THEN SwiftResult_when_success(self, h.success)
       ELSE SwiftResult_when_success_async(self, h.success)
  ELSE IF h.success = Undefined
       THEN IF h.failure.mode = "sync" THEN SwiftResult_when_failure(self, h.failure)
            ELSE SwiftResult_when_failure_async(self, h.failure)
       ELSE IF h.success.mode = "sync" THEN SwiftResult_when_both(self, h.success, h.failure)
            ELSE SwiftResult_when_both_async(self, h.success, h.failure)

\* arity: the number of parameters of the provider closure (its static type)
SwiftResult_otherwise(self, a, arity) ==
  IF ~IsFunction(a) THEN SwiftResult_otherwise_default(self, a)
  ELSE IF a.mode = "sync"
       THEN IF arity = 0 THEN SwiftResult_otherwise_provider(self, a)
            ELSE SwiftResult_otherwise_error_provider(self, a)
       ELSE IF arity = 0 THEN SwiftResult_otherwise_async(self, a)
            ELSE SwiftResult_otherwise_error_async(self, a)

SwiftResultOtherwiseOverload(a, arity) ==
  IF ~IsFunction(a) THEN "default"
  ELSE IF a.mode = "sync" THEN (IF arity = 0 THEN "provider" ELSE "error_provider")
       ELSE (IF arity = 0 THEN "async" ELSE "error_async")

SwiftResult_Catching_overload(body) ==
  IF body.mode = "sync" THEN SwiftResult_Catching(body) ELSE SwiftResult_Catching_async(body)

(***************************************************************************)
(* TypeScript Result<Type> (result/result.ts)                              *)
(***************************************************************************)
RECURSIVE NatToString(_)
NatToString(i) ==
  IF i < 10 THEN SubSeq("0123456789", i + 1, i + 1)
  ELSE NatToString(i \div 10) \o SubSeq("0123456789", (i % 10) + 1, (i % 10) + 1)

\* String(x)
String(x) ==
  CASE x.t = "string" -> x
    [] x.t = "number" -> IF x = NaN THEN Str("NaN") ELSE Str(NatToString(x.n))
    [] x.t = "boolean" -> IF x.b THEN Str("true") ELSE Str("false")
    [] x.t = "null" -> Str("null")
    [] x.t = "undefined" -> Str("undefined")
    [] x.t = "Error" -> Str("Error: " \o x.message)
    [] OTHER -> Str("[object Object]")

\* An object with the given prototype: "Object" for an object literal,
\* "null" for Object.create(null)
ObjectCreate(proto) == [t |-> "object", proto |-> proto]

\* String(x) raises a TypeError when x is an object with no toString or
\* valueOf to convert it with
StringRaises(x) == x.t = "object" /\ "proto" \in DOMAIN x /\ x.proto = "null"
TypeError == ErrorObject("Cannot convert object to primitive value")

\* x instanceof Error
IsErrorObject(x) == x.t = "Error"

\* private constructor(success, value, error)
NewResult(success, value, error) ==
  [t |-> "Result", success |-> success, value |-> value, error |-> error]

Result_HasInstance(value) == value.t = "Result"


\* Mutation: success is derived from the presence of a value
Result_Ok_present(value) == NewResult(value # Undefined, value, Undefined)

Result_Ok(value) == NewResult(TRUE, value, Undefined)

Result_Error(error) == NewResult(FALSE, Undefined, error)

Result_isOk(self) == self.success

Result_isError(self) == ~Result_isOk(self)

\* Invoke a caller-supplied callback and hand back what it returned; a
\* fault it raises propagates.
CallOut(f, args) ==
  LET result == Invoke(f, args)
  IN IF result.c = "throw" THEN Raised(f, args)
     ELSE Did(result, "cb", <<Call(f, args)>>, result.v)

\* matchWith: onOk is what pattern.Ok(this.value) does, onError what
\* pattern.Error(this.error) does; only the arm of the receiver's variant is
\* evaluated.
Result_matchWith(self, onOk, onError) ==
  IF Result_isOk(self) THEN onOk ELSE onError

\* matchWith called with a caller-supplied pattern { Ok, Error }
Pattern(ok, error) == [t |-> "object", Ok |-> ok, Error |-> error]
Result_matchWith_pattern(self, pattern) ==
  Result_matchWith(self, CallOut(pattern.Ok, <<self.value>>),
                         CallOut(pattern.Error, <<self.error>>))

\* Mutation: `this.value || defaultValue`
Result_getOrElse_truthy(self, defaultValue) ==
  IF Result_isOk(self) /\ Truthy(self.value)
  THEN Did(Return(self.value), "payload", <<>>, NotCalled)
  ELSE Did(Return(defaultValue), "arg", <<>>, NotCalled)

Result_getOrElse(self, defaultValue) ==
  IF Result_isOk(self) THEN Did(Return(self.value), "payload", <<>>, NotCalled)
  ELSE Did(Return(defaultValue), "arg", <<>>, NotCalled)

Result_orElse(self, handler) ==
  Result_matchWith(self,
    Did(Return(Result_Ok(self.value)), "fresh", <<>>, NotCalled),
    CallOut(handler, <<Result_Error(self.error)>>))

Result_merge(self) ==
  Result_matchWith(self,
    Did(Return(self.value), "payload", <<>>, NotCalled),
    Did(Return(self.error), "payload", <<>>, NotCalled))

\* Mutation: an Error keeps the error it already carries
Result_mapError_kept(self, error) ==
  Result_matchWith(self,
    Did(Return(Result_Ok(self.value)), "fresh", <<>>, NotCalled),
    Did(Return(Result_Error(self.error)), "fresh", <<>>, NotCalled))

Result_mapError(self, error) ==
  Result_matchWith(self,
    Did(Return(Result_Ok(self.value)), "fresh", <<>>, NotCalled),
    Did(Return(Result_Error(error)), "fresh", <<>>, NotCalled))

\* Mutation: a fault of the handler is caught and turned into an Error
Result_map_caught(self, handler) ==
  IF Result_isOk(self)
  THEN LET result == Invoke(handler, <<self.value>>)
       IN IF result.c = "throw"
          THEN Did(Return(Result_Error(result.v)), "fresh", <<Call(handler, <<self.value>>)>>, NotCalled)
          ELSE Did(Return(Result_Ok(result.v)), "fresh", <<Call(handler, <<self.value>>)>>, result.v)
  ELSE Did(Return(Result_Error(self.error)), "fresh", <<>>, NotCalled)

Result_map(self, handler) ==
  IF Result_isOk(self)
  THEN LET result == Invoke(handler, <<self.value>>)
       IN IF result.c = "throw" THEN Raised(handler, <<self.value>>)
          ELSE Did(Return(Result_Ok(result.v)), "fresh", <<Call(handler, <<self.value>>)>>, result.v)
  ELSE Did(Return(Result_Error(self.error)), "fresh", <<>>, NotCalled)


\* Mutation: the handler's Result is wrapped in a further Ok
Result_chain_wrapped(self, handler) ==
  IF Result_isOk(self)
  THEN LET result == Invoke(handler, <<self.value>>)
       IN IF result.c = "throw" THEN Raised(handler, <<self.value>>)
          ELSE Did(Return(Result_Ok(result.v)), "fresh", <<Call(handler, <<self.value>>)>>, result.v)
  ELSE Did(Return(Result_Error(self.error)), "fresh", <<>>, NotCalled)

Result_chain(self, handler) ==
  IF Result_isOk(self)
  THEN CallOut(handler, <<self.value>>)
  ELSE Did(Return(Result_Error(self.error)), "fresh", <<>>, NotCalled)

\* catch (error) { return Result.Error(error instanceof Error ? error : String(error)) }
\* Mutation: the caught value is stored as it is
Result_caught_raw(error) == Return(Result_Error(error))

\* The outcome of the catch clause: String(error) is evaluated inside it, so
\* a fault it raises leaves the clause.
Result_caught(error) ==
  IF IsErrorObject(error) THEN Return(Result_Error(error))
  ELSE IF StringRaises(error) THEN Throw(TypeError)
       ELSE Return(Result_Error(String(error)))

Result_Try(method) ==
  LET result == Invoke(method, <<>>)
  IN IF result.c = "throw"
     THEN Did(Result_caught(result.v), "fresh", <<Call(method, <<>>)>>, NotCalled)
     ELSE Did(Return(Result_Ok(result.v)), "fresh", <<Call(method, <<>>)>>, result.v)

\* static async FromPromise(promise): the call returns a pending promise and
\* awaits the argument (kept in cbret); Result_FromPromise_resume is the
\* continuation after the await.
Result_FromPromise(promise) ==
  Did(Return(Pending("then", Return(Undefined))), "fresh", <<>>, promise)

\* How the promise returned by FromPromise settles
Result_FromPromise_resume(promise) ==
  IF promise.st = "fulfilled" THEN Fulfilled(Result_Ok(promise.v))
  ELSE Settle(Result_caught(promise.v))

(***************************************************************************)
(* TypeScript Maybe<Type>.  Two classes are modelled: the null-checking    *)
(* class ("Maybe": isJust, isNothing, matchWith, getOrThrow(error),        *)
(* getOrElse, orElse, map, chain) and the early class ("EarlyMaybe":       *)
(* isJust, isNothing, match, matchWith, do, getOrElse, getOrDo,           *)
(* getOrThrow()).  Both keep one private slot `value`, and their          *)
(* factories, isJust, isNothing and getOrElse compute the same thing.     *)
(***************************************************************************)
\* private constructor(private readonly value = undefined)
NewMaybe(cls, value) == [t |-> cls, value |-> value]

is_something(value) == ~LooseEqNull(value)

Maybe_Just(cls, value) == NewMaybe(cls, value)

Maybe_Nothing(cls) == NewMaybe(cls, Undefined)

Maybe_FromNullable(cls, value) ==
  IF LooseEqNull(value) THEN Maybe_Nothing(cls) ELSE Maybe_Just(cls, value)

Maybe_isJust(self) == is_something(self.value)

Maybe_isNothing(self) == LooseEqNull(self.value)

\* matchWith(pattern: { Just, Nothing })
Maybe_matchWith(self, pattern) ==
  IF Maybe_isJust(self) THEN CallOut(pattern.Just, <<self.value>>)
  ELSE CallOut(pattern.Nothing, <<>>)

\* Mutation: the supplied message is ignored
Maybe_getOrThrow_anonymous(self, error) ==
  IF Maybe_isJust(self) THEN Did(Return(self.value), "payload", <<>>, NotCalled)
  ELSE Did(Throw(ErrorObject("tried to get a maybe value that was nothing")), "void", <<>>,
           NotCalled)

\* getOrThrow(error = 'tried to get a maybe value that was nothing'): the
\* default applies when the argument is undefined; new Error(error) takes
\* String(error) as its message.
Maybe_getOrThrow(self, error) ==
  IF Maybe_isJust(self) THEN Did(Return(self.value), "payload", <<>>, NotCalled)
  ELSE Did(Throw(ErrorObject(String(IF error = Undefined
                                     THEN Str("tried to get a maybe value that was nothing")
                                     ELSE error).s)), "void", <<>>, NotCalled)

Maybe_getOrElse(self, defaultValue) ==
  IF Maybe_isJust(self) THEN Did(Return(self.value), "payload", <<>>, NotCalled)
  ELSE Did(Return(defaultValue), "arg", <<>>, NotCalled)

Maybe_orElse(self, handler) ==
  IF Maybe_isJust(self)
  THEN Did(Return(Maybe_Just("Maybe", self.value)), "fresh", <<>>, NotCalled)
  ELSE CallOut(handler, <<>>)

Maybe_map(self, handler) ==
  IF Maybe_isJust(self)
  THEN LET result == Invoke(handler, <<self.value>>)
       IN IF result.c = "throw" THEN Raised(handler, <<self.value>>)
          ELSE Did(Return(Maybe_Just("Maybe", result.v)), "fresh",
                   <<Call(handler, <<self.value>>)>>, result.v)
  ELSE Did(Return(Maybe_Nothing("Maybe")), "fresh", <<>>, NotCalled)

Maybe_chain(self, handler) ==
  IF Maybe_isJust(self) THEN CallOut(handler, <<self.value>>)
  ELSE Did(Return(Maybe_Nothing("Maybe")), "fresh", <<>>, NotCalled)

\* match(just, nothing)
EarlyMaybe_match(self, just, nothing) ==
  IF Maybe_isJust(self) THEN CallOut(just, <<self.value>>) ELSE CallOut(nothing, <<>>)

\* matchWith(pattern: { just, nothing })
EarlyMaybe_matchWith(self, pattern) == EarlyMaybe_match(self, pattern.just, pattern.nothing)

\* do(action): void
EarlyMaybe_do(self, action) ==
  IF Maybe_isJust(self)
  THEN LET result == Invoke(action, <<self.value>>)
       IN IF result.c = "throw" THEN Raised(action, <<self.value>>)
          ELSE Did(Return(Undefined), "void", <<Call(action, <<self.value>>)>>, result.v)
  ELSE Did(Return(Undefined), "void", <<>>, NotCalled)

EarlyMaybe_getOrDo(self, action) ==
  IF Maybe_isJust(self) THEN Did(Return(self.value), "payload", <<>>, NotCalled)
  ELSE CallOut(action, <<>>)

\* getOrThrow(): the class's own `nothing` arm throws
EarlyMaybe_getOrThrow(self) ==
  IF Maybe_isJust(self) THEN Did(Return(self.value), "payload", <<>>, NotCalled)
  ELSE Did(Throw(ErrorObject("tried to get a maybe value that was null")), "void", <<>>,
           NotCalled)

(***************************************************************************)
(* The Maybe class of src/maybe/maybe.ts ("MatchMaybe"): isJust is the     *)
(* negation of isNothing and every accessor goes through matchWith; the    *)
(* arm matchWith selects is written out in place.                          *)
(***************************************************************************)
MatchMaybe_isNothing(self) == LooseEqNull(self.value)

\* Mutation: isJust tests the slot against undefined only
MatchMaybe_isJust_defined(self) == self.value # Undefined

MatchMaybe_isJust(self) == ~MatchMaybe_isNothing(self)

MatchMaybe_matchWith(self, pattern) ==
  IF MatchMaybe_isJust(self) THEN CallOut(pattern.Just, <<self.value>>)
  ELSE CallOut(pattern.Nothing, <<>>)

MatchMaybe_getOrThrow(self) ==
  IF MatchMaybe_isJust(self) THEN Did(Return(self.value), "payload", <<>>, NotCalled)
  ELSE Did(Throw(ErrorObject("tried to get a maybe value that was nothing")), "void", <<>>,
           NotCalled)

MatchMaybe_getOrElse(self, defaultValue) ==
  IF MatchMaybe_isJust(self) THEN Did(Return(self.value), "payload", <<>>, NotCalled)
  ELSE Did(Return(defaultValue), "arg", <<>>, NotCalled)

\* Mutation: the handler is consulted on Just as well
MatchMaybe_orElse_eager(self, handler) == CallOut(handler, <<>>)

MatchMaybe_orElse(self, handler) ==
  IF MatchMaybe_isJust(self)
  THEN Did(Return(Maybe_Just("MatchMaybe", self.value)), "fresh", <<>>, NotCalled)
  ELSE CallOut(handler, <<>>)

MatchMaybe_map(self, handler) ==
  IF MatchMaybe_isJust(self)
  THEN LET result == Invoke(handler, <<self.value>>)
       IN IF result.c = "throw" THEN Raised(handler, <<self.value>>)
          ELSE Did(Return(Maybe_Just("MatchMaybe", result.v)), "fresh",
                   <<Call(handler, <<self.value>>)>>, result.v)
  ELSE Did(Return(Maybe_Nothing("MatchMaybe")), "fresh", <<>>, NotCalled)

MatchMaybe_chain(self, handler) ==
  IF MatchMaybe_isJust(self) THEN CallOut(handler, <<self.value>>)
  ELSE Did(Return(Maybe_Nothing("MatchMaybe")), "fresh", <<>>, NotCalled)

(***************************************************************************)
(* Monad operators (src/operators): the variant test and the constructors  *)
(* are passed in by the class that uses them.                              *)
(***************************************************************************)
\* or_else_monad(isSuccess, successValue, handler, createSuccess); created
\* is what createSuccess(successValue) builds
or_else_monad(isSuccess, created, handler) ==
  IF isSuccess THEN Did(Return(created), "fresh", <<>>, NotCalled)
  ELSE CallOut(handler, <<>>)

\* chain_monad(isSuccess, successValue, errorValue, handler, createError);
\* failed is what createError(errorValue) builds
chain_monad(isSuccess, successValue, failed, handler) ==
  IF isSuccess THEN CallOut(handler, <<successValue>>)
  ELSE Did(Return(failed), "fresh", <<>>, NotCalled)

(***************************************************************************)
(* Gleam option helpers (src/folklore/option.gleam) and the Maybe class    *)
(* that delegates to them ("GleamMaybe"): its one slot `inner` holds a     *)
(* Gleam Option, Some(value) or None.                                      *)
(***************************************************************************)
GleamSome(value) == [t |-> "gleam.Some", v |-> value]
GleamNone == [t |-> "gleam.None"]

option_just(value) == GleamSome(value)

option_nothing == GleamNone

option_is_just(maybe) == maybe.t = "gleam.Some"

option_is_nothing(maybe) == maybe.t = "gleam.None"

option_get_or_else(maybe, default) == IF maybe.t = "gleam.Some" THEN maybe.v ELSE default

\* unwrap_with(maybe, fallback): fallback is what running the fallback
\* gives, evaluated on None only
option_unwrap_with(maybe, fallback) == IF maybe.t = "gleam.Some" THEN Return(maybe.v) ELSE fallback

\* private constructor(private readonly inner: unknown)
NewGleamMaybe(inner) == [t |-> "GleamMaybe", inner |-> inner]

GleamMaybe_Just(value) == NewGleamMaybe(option_just(value))

GleamMaybe_Nothing == NewGleamMaybe(option_nothing)

GleamMaybe_FromNullable(value) ==
  IF LooseEqNull(value) THEN GleamMaybe_Nothing ELSE GleamMaybe_Just(value)

\* unwrapOrThrow(message): the fallback throws new Error(message)
GleamMaybe_unwrapOrThrow(self, message) ==
  option_unwrap_with(self.inner, Throw(ErrorObject(String(message).s)))

GleamMaybe_isJust(self) == option_is_just(self.inner)

GleamMaybe_isNothing(self) == option_is_nothing(self.inner)

GleamMaybe_matchWith(self, pattern) ==
  IF GleamMaybe_isJust(self)
  THEN LET value == GleamMaybe_unwrapOrThrow(self, Str("Attempted to match Nothing without a fallback"))
       IN IF value.c = "throw" THEN Did(value, "void", <<>>, NotCalled)
          ELSE CallOut(pattern.Just, <<value.v>>)
  ELSE CallOut(pattern.Nothing, <<>>)

GleamMaybe_getOrThrow(self, error) ==
  LET value == GleamMaybe_unwrapOrThrow(self,
                 IF error = Undefined THEN Str("tried to get a maybe value that was nothing")
                 ELSE error)
  IN Did(value, IF value.c = "throw" THEN "void" ELSE "payload", <<>>, NotCalled)

GleamMaybe_getOrElse(self, defaultValue) ==
  Did(Return(option_get_or_else(self.inner, defaultValue)),
      IF option_is_just(self.inner) THEN "payload" ELSE "arg", <<>>, NotCalled)

GleamMaybe_orElse(self, handler) ==
  IF GleamMaybe_isJust(self) THEN Did(Return(self), "this", <<>>, NotCalled)
  ELSE CallOut(handler, <<>>)

GleamMaybe_map(self, handler) ==
  IF GleamMaybe_isJust(self)
  THEN LET value == GleamMaybe_unwrapOrThrow(self, Str("Attempted to map a Nothing value"))
           result == Invoke(handler, <<value.v>>)
       IN IF value.c = "throw" THEN Did(value, "void", <<>>, NotCalled)
          ELSE IF result.c = "throw" THEN Raised(handler, <<value.v>>)
          ELSE Did(Return(GleamMaybe_Just(result.v)), "fresh",
                   <<Call(handler, <<value.v>>)>>, result.v)
  ELSE Did(Return(GleamMaybe_Nothing), "fresh", <<>>, NotCalled)

GleamMaybe_chain(self, handler) ==
  IF GleamMaybe_isJust(self)
  THEN LET value == GleamMaybe_unwrapOrThrow(self, Str("Attempted to chain on a Nothing value"))
       IN IF value.c = "throw" THEN Did(value, "void", <<>>, NotCalled)
          ELSE CallOut(handler, <<value.v>>)
  ELSE Did(Return(GleamMaybe_Nothing), "fresh", <<>>, NotCalled)

\* The four classes behind one call
MaybeJust(cls, value) ==
  IF cls = "GleamMaybe" THEN GleamMaybe_Just(value) ELSE Maybe_Just(cls, value)
MaybeNothing(cls) == IF cls = "GleamMaybe" THEN GleamMaybe_Nothing ELSE Maybe_Nothing(cls)
MaybeFromNullable(cls, value) ==
  IF cls = "GleamMaybe" THEN GleamMaybe_FromNullable(value) ELSE Maybe_FromNullable(cls, value)
\* What the slot holds
MaybePayload(self) == IF self.t = "GleamMaybe" THEN self.inner.v ELSE self.value
MaybeIsJust(self) ==
  CASE self.t = "GleamMaybe" -> GleamMaybe_isJust(self)
    [] self.t = "MatchMaybe" -> MatchMaybe_isJust(self)
    [] OTHER -> Maybe_isJust(self)
MaybeIsNothing(self) ==
  CASE self.t = "GleamMaybe" -> GleamMaybe_isNothing(self)
    [] self.t = "MatchMaybe" -> MatchMaybe_isNothing(self)
    [] OTHER -> Maybe_isNothing(self)
MaybeGetOrElse(self, d) ==
  CASE self.t = "GleamMaybe" -> GleamMaybe_getOrElse(self, d)
    [] self.t = "MatchMaybe" -> MatchMaybe_getOrElse(self, d)
    [] OTHER -> Maybe_getOrElse(self, d)
MaybeGetOrThrow(self, error) ==
  CASE self.t = "GleamMaybe" -> GleamMaybe_getOrThrow(self, error)
    [] self.t = "MatchMaybe" -> MatchMaybe_getOrThrow(self)
    [] self.t = "EarlyMaybe" -> EarlyMaybe_getOrThrow(self)
    [] OTHER -> Maybe_getOrThrow(self, error)
MaybeMatchWith(self, pattern) ==
  CASE self.t = "GleamMaybe" -> GleamMaybe_matchWith(self, pattern)
    [] self.t = "MatchMaybe" -> MatchMaybe_matchWith(self, pattern)
    [] OTHER -> Maybe_matchWith(self, pattern)
MaybeOrElse(self, handler) ==
  CASE self.t = "GleamMaybe" -> GleamMaybe_orElse(self, handler)
    [] self.t = "MatchMaybe" -> MatchMaybe_orElse(self, handler)
    [] OTHER -> Maybe_orElse(self, handler)
MaybeMap(self, handler) ==
  CASE self.t = "GleamMaybe" -> GleamMaybe_map(self, handler)
    [] self.t = "MatchMaybe" -> MatchMaybe_map(self, handler)
    [] OTHER -> Maybe_map(self, handler)
MaybeChain(self, handler) ==
  CASE self.t = "GleamMaybe" -> GleamMaybe_chain(self, handler)
    [] self.t = "MatchMaybe" -> MatchMaybe_chain(self, handler)
    [] OTHER -> Maybe_chain(self, handler)

(***************************************************************************)
(* The early Result class ("EarlyResult"): two slots, value and error, and *)
(* no variant flag; the variant is read off the slots.                     *)
(***************************************************************************)
\* private constructor(private readonly value: T, private readonly error: E)
NewEarlyResult(value, error) == [t |-> "EarlyResult", value |-> value, error |-> error]

EarlyResult_Ok(value) == NewEarlyResult(value, Undefined)

EarlyResult_Error(error) == NewEarlyResult(Undefined, error)

EarlyResult_isOk(self) == ~LooseEqNull(self.value)

EarlyResult_isError(self) == ~LooseEqNull(self.error)

\* match(ok, error)
EarlyResult_match(self, ok, error) ==
  IF EarlyResult_isOk(self) THEN CallOut(ok, <<self.value>>) ELSE CallOut(error, <<self.error>>)

\* matchWith(pattern: { ok, error })
EarlyResult_matchWith(self, pattern) == EarlyResult_match(self, pattern.ok, pattern.error)

\* getOrElse(defaultValue): match((value) => value, () => defaultValue)
EarlyResult_getOrElse(self, defaultValue) ==
  IF EarlyResult_isOk(self) THEN Did(Return(self.value), "payload", <<>>, NotCalled)
  ELSE Did(Return(defaultValue), "arg", <<>>, NotCalled)

\* getOrDo(action): match((value) => value, () => action())
EarlyResult_getOrDo(self, action) ==
  IF EarlyResult_isOk(self) THEN Did(Return(self.value), "payload", <<>>, NotCalled)
  ELSE CallOut(action, <<>>)

(***************************************************************************)
(* Future<T, E> (src/unstable/future/future.ts), built on the early       *)
(* Result<T, E>.  Its one slot refers to the promise FromPromise chained;  *)
(* a promise is an object with identity, so the states of the argument     *)
(* promise and of the chained promise are kept with the factory call.      *)
(***************************************************************************)
\* private constructor(private readonly promise: Promise<Result<T, E>>)
NewFuture(promise) == [t |-> "Future", promise |-> promise]

\* promise.then((value) => Result.Ok(value)).catch((error) => Result.Error(error)):
\* what the chained promise settles to once the argument promise has settled
Future_FromPromise_chained(promise) ==
  IF promise.st = "fulfilled" THEN Fulfilled(EarlyResult_Ok(promise.v))
  ELSE Fulfilled(EarlyResult_Error(promise.v))

\* async result(): the call returns a pending promise and awaits the slot
Future_result(self) == Did(Return(Pending("then", Return(Undefined))), "fresh", <<>>, NotCalled)

\* return await this.promise
Future_result_resume(promise) ==
  IF promise.st = "fulfilled" THEN Fulfilled(promise.v) ELSE Rejected(promise.v)

(***************************************************************************)
(* Gleam result helpers (src/folklore/result.gleam); gleam/result.try is   *)
(* the standard library's bind.                                            *)
(***************************************************************************)
GleamOk(value) == [t |-> "gleam.Ok", v |-> value]
GleamError(err) == [t |-> "gleam.Error", e |-> err]

gleam_result_try(res, fun) ==
  IF res.t = "gleam.Ok"
  THEN Did(Invoke(fun, <<res.v>>), "cb", <<Call(fun, <<res.v>>)>>, Invoke(fun, <<res.v>>).v)
  ELSE Did(Return(GleamError(res.e)), "fresh", <<>>, NotCalled)

gleam_chain(res, mapper) == gleam_result_try(res, mapper)

gleam_map_error_replace(res, new_error) ==
  IF res.t = "gleam.Ok" THEN Did(Return(GleamOk(res.v)), "fresh", <<>>, NotCalled)
  ELSE Did(Return(GleamError(new_error)), "fresh", <<>>, NotCalled)

(***************************************************************************)
(* The caller                                                             *)
(***************************************************************************)
VARIABLES
  this,   \* the container the next combinator call is issued on
  made,   \* the factory call that built the first container of the chain
  prev,   \* the combinator call before the last one
  last,   \* the last combinator call
  n       \* number of combinator calls issued on this chain

vars == <<this, made, prev, last, n>>

NoObject == [t |-> "noobject"]
NoCall == [op |-> "none"]

Entry(op, impl, ov, recv, arg, did) ==
  [op |-> op, impl |-> impl, ov |-> ov, recv |-> recv, arg |-> arg,
   out |-> did.out, ref |-> did.ref, calls |-> did.calls, cbret |-> did.cbret]

Init ==
  /\ this = NoObject
  /\ made = [factory |-> "none"]
  /\ prev = NoCall
  /\ last = NoCall
  /\ n = 0

Build(factory, x, obj) ==
  /\ this' = obj
  /\ made' = [factory |-> factory, x |-> x]
  /\ UNCHANGED <<prev, last, n>>

\* Mutation: a call that hands out the payload leaves the receiver empty
ReceiverAfter_consumed(self, e) == IF e.ref = "payload" THEN NoObject ELSE self

\* The receiver once the call e has run on it.  Every slot of every class is
\* `private readonly` (a Swift enum payload is a `let` binding) and no
\* method assigns to one, so the receiver is what it was.
ReceiverAfter(self, e) == self

Record(e) ==
  /\ n < MaxChain
  /\ prev' = last
  /\ last' = e
  /\ n' = n + 1
  /\ this' = ReceiverAfter(this, e)
  /\ UNCHANGED made

\* The calls whose promises may still settle: the caller need not await one
\* call before issuing the next, so the call before the last one can still
\* be outstanding.
Outstanding == {"prev", "last"}
Pick(w) == IF w = "last" THEN last ELSE prev
Update(w, e) ==
  /\ IF w = "last" THEN last' = e /\ prev' = prev ELSE prev' = e /\ last' = last
  /\ UNCHANGED <<this, made, n>>

\* Arguments the caller draws from
OptionalArgs == {Optional_Some(Num(MaxNum)), Optional_None}
Modes == {"sync", "async"}
Boom == Str("boom")
Providers ==
  {Fn(m, "const", k) : m \in Modes, k \in Nullable} \cup {Fn(m, "throw", Boom) : m \in Modes}
OptionalProviders ==
  {Fn(m, "const", k) : m \in Modes, k \in OptionalArgs} \cup {Fn(m, "throw", Boom) : m \in Modes}
Transformers ==
  {Fn(m, "const", k) : m \in Modes, k \in Nullable \cup OptionalArgs}
    \cup {Fn(m, "succ", Undefined) : m \in Modes}
    \cup {Fn(m, "throw", Boom) : m \in Modes}
SideEffects ==
  {Fn(m, "const", Undefined) : m \in Modes} \cup {Fn("sync", "throw", Boom)}
HandlerSets ==
  {Handlers(s, o) : s \in SideEffects \cup {Undefined}, o \in SideEffects \cup {Undefined}}
    \ {Handlers(Undefined, Undefined)}

MakeSome ==
  /\ this = NoObject
  /\ \E v \in PlainValues : Build("Some", v, Optional_Some(v))

MakeNone ==
  /\ this = NoObject
  /\ Build("None", Undefined, Optional_None)

MakeFromNullable ==
  /\ this = NoObject
  /\ \E x \in Nullable : Build("FromNullable", x, Optional_FromNullable(x))

CallOtherwise ==
  /\ this.t = "Optional"
  /\ \E a \in PlainValues \cup Providers :
       Record(Entry("otherwise", "ts", "impl", this, a, Optional_otherwise(this, a)))

CallOptionally ==
  /\ this.t = "Optional"
  /\ \E a \in OptionalArgs \cup OptionalProviders :
       Record(Entry("optionally", "ts", "impl", this, a, Optional_optionally(this, a)))

CallTransform ==
  /\ this.t = "Optional"
  /\ \E f \in Transformers :
       Record(Entry("transform", "ts", "impl", this, f, Optional_transform(this, f)))

CallWhen ==
  /\ this.t = "Optional"
  /\ \E h \in HandlerSets :
       Record(Entry("when", "ts", "impl", this, h, Optional_when(this, h)))

\* TypeScript Result callers
ResultErrors == {Str("oops"), ErrorObject("test")}
Thrown == {Boom, ErrorObject("test"), Num(0), Null, ObjectCreate("Object"), ObjectCreate("null")}
HandlerResults == {Result_Ok(Num(MaxNum)), Result_Error(Str("handler error"))}
Mappers ==
  {Fn("sync", "succ", Undefined), Fn("sync", "const", Undefined), Fn("sync", "throw", Boom)}
    \cup {Fn("sync", "const", Num(i)) : i \in 0..MaxNum}
Chainers == {Fn("sync", "const", r) : r \in HandlerResults} \cup {Fn("sync", "throw", Boom)}
Patterns == {Pattern(f, g) : f, g \in {Fn("sync", "succ", Undefined), Fn("sync", "throw", Boom)}}
Methods ==
  {Fn("sync", "const", k) : k \in {Num(MaxNum), Undefined}} \cup {Fn("sync", "throw", x) : x \in Thrown}
Promises ==
  {Pending("async", Return(k)) : k \in {Num(MaxNum), Undefined}}
    \cup {Pending("async", Throw(x)) : x \in Thrown}
    \cup {Fulfilled(Num(MaxNum)), Rejected(Boom)}

MakeOk ==
  /\ this = NoObject
  /\ \E v \in PlainValues \cup {Undefined} : Build("Ok", v, Result_Ok(v))

MakeError ==
  /\ this = NoObject
  /\ \E e \in ResultErrors : Build("Error", e, Result_Error(e))

IsResult(x) == x.t = "Result"

CallTry ==
  /\ this = NoObject
  /\ \E m \in Methods : Record(Entry("Try", "ts", "static", NoObject, m, Result_Try(m)))

CallFromPromise ==
  /\ this = NoObject
  /\ \E p \in Promises :
       Record(Entry("FromPromise", "ts", "static", NoObject, p, Result_FromPromise(p)))

\* The continuation of FromPromise after `await promise`
FromPromiseResume ==
  \E w \in Outstanding :
    LET e == Pick(w)
    IN /\ e # NoCall
       /\ e.op = "FromPromise"
       /\ IsPending(e.out.v)
       /\ IsSettled(e.cbret)
       /\ Update(w, [e EXCEPT !.out = Return(Result_FromPromise_resume(e.cbret))])

CallIsOk ==
  /\ IsResult(this)
  /\ Record(Entry("isOk", "ts", "impl", this, Undefined,
                  Did(Return(Bool(Result_isOk(this))), "fresh", <<>>, NotCalled)))

CallIsError ==
  /\ IsResult(this)
  /\ Record(Entry("isError", "ts", "impl", this, Undefined,
                  Did(Return(Bool(Result_isError(this))), "fresh", <<>>, NotCalled)))

CallMatchWith ==
  /\ IsResult(this)
  /\ \E p \in Patterns :
       Record(Entry("matchWith", "ts", "impl", this, p, Result_matchWith_pattern(this, p)))

CallGetOrElse ==
  /\ IsResult(this)
  /\ \E d \in PlainValues :
       Record(Entry("getOrElse", "ts", "impl", this, d, Result_getOrElse(this, d)))

CallOrElse ==
  /\ IsResult(this)
  /\ \E h \in Chainers : Record(Entry("orElse", "ts", "impl", this, h, Result_orElse(this, h)))

CallMerge ==
  /\ IsResult(this)
  /\ Record(Entry("merge", "ts", "impl", this, Undefined, Result_merge(this)))

CallMapError ==
  /\ IsResult(this)
  /\ \E e \in ResultErrors :
       Record(Entry("mapError", "ts", "impl", this, e, Result_mapError(this, e)))

CallMap ==
  /\ IsResult(this)
  /\ \E f \in Mappers : Record(Entry("map", "ts", "impl", this, f, Result_map(this, f)))

CallChain ==
  /\ IsResult(this)
  /\ \E f \in Chainers : Record(Entry("chain", "ts", "impl", this, f, Result_chain(this, f)))

\* Gleam callers
GleamResults == {GleamOk(Num(i)) : i \in 0..MaxNum} \cup {GleamError(Str("oops"))}
GleamMappers ==
  {Fn("sync", "const", r) : r \in {GleamOk(Num(MaxNum)), GleamError(Str("handler error"))}}

EarlyHandlers == {Fn("sync", "const", Num(MaxNum)), Fn("sync", "throw", Boom)}

MakeEarlyOk ==
  /\ this = NoObject
  /\ \E v \in Nullable : Build("EarlyResult.Ok", v, EarlyResult_Ok(v))

MakeEarlyError ==
  /\ this = NoObject
  /\ \E e \in {Str("oops"), ErrorObject("test"), Null} :
       Build("EarlyResult.Error", e, EarlyResult_Error(e))

EarlyCallIsOk ==
  /\ this.t = "EarlyResult"
  /\ Record(Entry("isOk", "EarlyResult", "impl", this, Undefined,
                  Did(Return(Bool(EarlyResult_isOk(this))), "fresh", <<>>, NotCalled)))

EarlyCallIsError ==
  /\ this.t = "EarlyResult"
  /\ Record(Entry("isError", "EarlyResult", "impl", this, Undefined,
                  Did(Return(Bool(EarlyResult_isError(this))), "fresh", <<>>, NotCalled)))

EarlyCallMatch ==
  /\ this.t = "EarlyResult"
  /\ \E o, e \in EarlyHandlers :
       \/ Record(Entry("match", "EarlyResult", "impl", this, <<o, e>>,
                       EarlyResult_match(this, o, e)))
       \/ Record(Entry("matchWith", "EarlyResult", "impl", this,
                       [t |-> "object", ok |-> o, error |-> e],
                       EarlyResult_matchWith(this, [t |-> "object", ok |-> o, error |-> e])))

EarlyCallGetOrElse ==
  /\ this.t = "EarlyResult"
  /\ \E d \in {Num(MaxNum), Str("fallback")} :
       Record(Entry("getOrElse", "EarlyResult", "impl", this, d, EarlyResult_getOrElse(this, d)))

EarlyCallGetOrDo ==
  /\ this.t = "EarlyResult"
  /\ \E a \in EarlyHandlers :
       Record(Entry("getOrDo", "EarlyResult", "impl", this, a, EarlyResult_getOrDo(this, a)))

\* Promises handed to Future.FromPromise: settled already (a throwing
\* executor leaves a rejected promise) or settling later
FuturePromises ==
  {Fulfilled(Num(MaxNum)), Fulfilled(Undefined), Rejected(ErrorObject("error")),
   Pending("async", Return(Num(MaxNum))), Pending("async", Return(Undefined)),
   Pending("async", Throw(ErrorObject("error")))}

MakeFuture ==
  /\ this = NoObject
  /\ \E p \in FuturePromises :
       /\ this' = NewFuture("chained")
       /\ made' = [factory |-> "Future.FromPromise", x |-> p,
                   chained |-> Pending("then", Return(Undefined))]
       /\ UNCHANGED <<prev, last, n>>

\* The promise given to FromPromise settles
FuturePromiseSettles ==
  /\ made.factory = "Future.FromPromise"
  /\ IsPending(made.x)
  /\ made' = [made EXCEPT !.x = Settle(made.x.will)]
  /\ UNCHANGED <<this, prev, last, n>>

\* The reactions registered by then and catch run
FutureReact ==
  /\ made.factory = "Future.FromPromise"
  /\ IsSettled(made.x)
  /\ IsPending(made.chained)
  /\ made' = [made EXCEPT !.chained = Future_FromPromise_chained(made.x)]
  /\ UNCHANGED <<this, prev, last, n>>

FutureCallResult ==
  /\ this.t = "Future"
  /\ Record(Entry("result", "Future", "impl", this, Undefined, Future_result(this)))

\* A result() call continues after its await, whichever call it is
FutureResultResume ==
  /\ made.factory = "Future.FromPromise"
  /\ IsSettled(made.chained)
  /\ \E w \in Outstanding :
       LET e == Pick(w)
       IN /\ e.op = "result"
          /\ IsPending(e.out.v)
          /\ Update(w, [e EXCEPT !.out = Return(Future_result_resume(made.chained))])

MakeGleamResult ==
  /\ this = NoObject
  /\ \E r \in GleamResults : Build("gleam", r, r)

GleamCallChain ==
  /\ this.t \in {"gleam.Ok", "gleam.Error"}
  /\ \E f \in GleamMappers : Record(Entry("chain", "gleam", "impl", this, f, gleam_chain(this, f)))

GleamCallMapErrorReplace ==
  /\ this.t \in {"gleam.Ok", "gleam.Error"}
  /\ \E e \in {Str("oops"), Str("replaced")} :
       Record(Entry("mapError", "gleam", "impl", this, e, gleam_map_error_replace(this, e)))

\* Swift callers
SwiftOptionals == {SwiftNil} \cup {SwiftSome(v) : v \in PlainValues}
SwiftProviders == {Fn(m, "const", k) : m \in Modes, k \in PlainValues}
SwiftOptionalProviders == {Fn(m, "const", k) : m \in Modes, k \in {SwiftNil, SwiftSome(Num(MaxNum))}}
SwiftTransformers ==
  {Fn(m, "const", k) : m \in Modes, k \in {Str(""), SwiftNil, SwiftSome(Num(MaxNum))}}
    \cup {Fn(m, "succ", Undefined) : m \in Modes}
SwiftActions == {Fn(m, "const", SwiftVoid) : m \in Modes}
SwiftHandlerSets ==
  {Handlers(s, Undefined) : s \in SwiftActions}
    \cup {Handlers(Undefined, o) : o \in SwiftActions}
    \cup {Handlers(Fn(m, "const", SwiftVoid), Fn(m, "const", SwiftVoid)) : m \in Modes}

MakeSwiftOptional ==
  /\ this = NoObject
  /\ \E o \in SwiftOptionals : Build("swift", o, o)

IsSwiftOptional(x) == x.t \in {"nil", "some"}

SwiftCallOtherwise ==
  /\ IsSwiftOptional(this)
  /\ \E a \in PlainValues \cup SwiftProviders :
       Record(Entry("otherwise", "swift", SwiftOverload(a), this, a, Swift_otherwise(this, a)))

SwiftCallOptionally ==
  /\ IsSwiftOptional(this)
  /\ \E a \in {SwiftNil, SwiftSome(Num(MaxNum))} \cup SwiftOptionalProviders :
       Record(Entry("optionally", "swift", SwiftOverload(a), this, a, Swift_optionally(this, a)))

SwiftCallTransform ==
  /\ IsSwiftOptional(this)
  /\ \E f \in SwiftTransformers :
       Record(Entry("transform", "swift", SwiftOverload(f), this, f, Swift_transform(this, f)))

SwiftCallWhen ==
  /\ IsSwiftOptional(this)
  /\ \E h \in SwiftHandlerSets :
       Record(Entry("when", "swift", "when", this, h, Swift_when(this, h)))

\* Swift Result callers
SwiftErrors == {SwiftError("not_found"), SwiftError("denied")}
SwiftResults == {SwiftSuccess(Num(i)) : i \in 0..MaxNum} \cup {SwiftFailure(e) : e \in SwiftErrors}
SwiftBodies ==
  {Fn(m, "const", Num(MaxNum)) : m \in Modes} \cup {Fn(m, "throw", SwiftError("denied")) : m \in Modes}
SwiftRecoveries ==
  {Fn(m, "const", k) : m \in Modes,
                       k \in {SwiftNil, SwiftSome(Num(MaxNum)), SwiftSuccess(Num(MaxNum)),
                              SwiftFailure(SwiftError("denied"))}}
SwiftReframers ==
  {Fn(m, "const", k) : m \in Modes,
                       k \in {SwiftError("denied"), SwiftSuccess(Num(MaxNum)),
                              SwiftFailure(SwiftError("denied"))}}
SwiftResultHandlerSets ==
  {ResultHandlers(s, Undefined) : s \in SwiftActions}
    \cup {ResultHandlers(Undefined, f) : f \in SwiftActions}
    \cup {ResultHandlers(Fn(m, "const", SwiftVoid), Fn(m, "const", SwiftVoid)) : m \in Modes}
SwiftFallbacks ==
  {<<Num(MaxNum), 0>>} \cup {<<Fn(m, "const", Num(MaxNum)), arity>> : m \in Modes, arity \in {0, 1}}

MakeSwiftResult ==
  /\ this = NoObject
  /\ \E r \in SwiftResults : Build("swiftResult", r, r)

IsSwiftResult(x) == x.t \in {"success", "failure"}

SwiftCallCatching ==
  /\ this = NoObject
  /\ \E body \in SwiftBodies :
       Record(Entry("Catching", "swiftResult", body.mode, NoObject, body,
                    SwiftResult_Catching_overload(body)))

SwiftCallRecover ==
  /\ IsSwiftResult(this)
  /\ \E f \in SwiftRecoveries :
       Record(Entry("recover", "swiftResult", SwiftResultOverload(f), this, f,
                    SwiftResult_recover(this, f)))

SwiftCallReframe ==
  /\ IsSwiftResult(this)
  /\ \E f \in SwiftReframers :
       Record(Entry("reframe", "swiftResult", SwiftResultOverload(f), this, f,
                    SwiftResult_reframe(this, f)))

SwiftResultCallWhen ==
  /\ IsSwiftResult(this)
  /\ \E h \in SwiftResultHandlerSets :
       Record(Entry("when", "swiftResult", "when", this, h, SwiftResult_when(this, h)))

SwiftResultCallOtherwise ==
  /\ IsSwiftResult(this)
  /\ \E a \in SwiftFallbacks :
       Record(Entry("otherwise", "swiftResult", SwiftResultOtherwiseOverload(a[1], a[2]), this, a[1],
                    SwiftResult_otherwise(this, a[1], a[2])))

SwiftResultCallTransmute ==
  /\ IsSwiftResult(this)
  /\ \/ Record(Entry("transmute", "swiftResult", "value", this, Undefined,
                     SwiftResult_transmute(this)))
     \/ Record(Entry("transmute", "swiftResult", "error", this, Str(".error"),
                     SwiftResult_transmute_error(this)))

SwiftCallTransmute ==
  /\ IsSwiftOptional(this)
  /\ \E e \in SwiftErrors :
       Record(Entry("transmute", "swift", "as", this, e, Swift_transmute_as(this, e)))

\* An awaiting Swift Result overload resumes after its closure has completed
\* and returns to its caller.
SwiftResultResume ==
  \E w \in Outstanding :
    LET e == Pick(w)
    IN /\ e # NoCall
       /\ e.impl = "swiftResult"
       /\ e.out.c = "return"
       /\ IsPending(e.out.v)
       /\ e.out.v.src = "await"
       /\ IsSettled(e.cbret)
       /\ Update(w, [e EXCEPT !.out =
                       Return(Fulfilled(SwiftResult_resume(e.op, e.ov, e.recv, e.cbret)))])

\* An awaiting Swift overload resumes after its closure has completed and
\* returns to its caller.
SwiftResume ==
  \E w \in Outstanding :
    LET e == Pick(w)
    IN /\ e # NoCall
       /\ e.impl = "swift"
       /\ e.out.c = "return"
       /\ IsPending(e.out.v)
       /\ e.out.v.src = "await"
       /\ IsSettled(e.cbret)
       /\ Update(w, [e EXCEPT !.out = Return(Fulfilled(Swift_resume(e.op, e.ov, e.cbret.v)))])

\* Maybe callers.  cls picks the class; Just of the early class accepts any
\* value (Just<T>(value: T)), Just of the null-checking class a NonNullable.
MaybeClasses == {"Maybe", "EarlyMaybe", "MatchMaybe", "GleamMaybe"}
\* The classes with orElse, map and chain
MonadicMaybes == MaybeClasses \ {"EarlyMaybe"}
IsMaybe(x) == x.t \in MaybeClasses
MaybeHandlers == {Fn("sync", "const", Num(MaxNum)), Fn("sync", "throw", Boom)}
\* Handlers that answer with a Maybe of the receiver's class
MaybeReturning(cls) ==
  {Fn("sync", "const", MaybeJust(cls, Num(MaxNum))), Fn("sync", "const", MaybeNothing(cls)),
   Fn("sync", "throw", Boom)}

MakeJust ==
  /\ this = NoObject
  /\ \E cls \in MaybeClasses :
       \E v \in PlainValues \cup (IF cls = "EarlyMaybe" THEN {Null} ELSE {}) :
         Build(cls \o ".Just", v, MaybeJust(cls, v))

MakeNothing ==
  /\ this = NoObject
  /\ \E cls \in MaybeClasses : Build(cls \o ".Nothing", Undefined, MaybeNothing(cls))

MakeMaybeFromNullable ==
  /\ this = NoObject
  /\ \E cls \in MaybeClasses :
       \E x \in {Num(MaxNum), Str(""), Null, Undefined} :
         Build(cls \o ".FromNullable", x, MaybeFromNullable(cls, x))

MaybeCallIsJust ==
  /\ IsMaybe(this)
  /\ Record(Entry("isJust", this.t, "impl", this, Undefined,
                  Did(Return(Bool(MaybeIsJust(this))), "fresh", <<>>, NotCalled)))

MaybeCallIsNothing ==
  /\ IsMaybe(this)
  /\ Record(Entry("isNothing", this.t, "impl", this, Undefined,
                  Did(Return(Bool(MaybeIsNothing(this))), "fresh", <<>>, NotCalled)))

MaybeCallGetOrElse ==
  /\ IsMaybe(this)
  /\ \E d \in {Num(0)} :
       Record(Entry("getOrElse", this.t, "impl", this, d, MaybeGetOrElse(this, d)))

MaybeCallGetOrThrow ==
  /\ IsMaybe(this)
  /\ \E error \in IF this.t \in {"Maybe", "GleamMaybe"}
                  THEN {Undefined, Str(""), Str("custom")} ELSE {Undefined} :
       Record(Entry("getOrThrow", this.t, "impl", this, error, MaybeGetOrThrow(this, error)))

MaybeCallMatchWith ==
  /\ IsMaybe(this)
  /\ \E j, o \in MaybeHandlers :
       \/ /\ this.t # "EarlyMaybe"
          /\ Record(Entry("matchWith", this.t, "impl", this,
                          [t |-> "object", Just |-> j, Nothing |-> o],
                          MaybeMatchWith(this, [t |-> "object", Just |-> j, Nothing |-> o])))
       \/ /\ this.t = "EarlyMaybe"
          /\ Record(Entry("matchWith", this.t, "impl", this,
                          [t |-> "object", just |-> j, nothing |-> o],
                          EarlyMaybe_matchWith(this, [t |-> "object", just |-> j, nothing |-> o])))

MaybeCallOrElse ==
  /\ this.t \in MonadicMaybes
  /\ \E h \in MaybeReturning(this.t) :
       Record(Entry("orElse", this.t, "impl", this, h, MaybeOrElse(this, h)))

MaybeCallMap ==
  /\ this.t \in MonadicMaybes
  /\ \E f \in MaybeHandlers \cup {Fn("sync", "succ", Undefined), Fn("sync", "const", Null)} :
       Record(Entry("map", this.t, "impl", this, f, MaybeMap(this, f)))

MaybeCallChain ==
  /\ this.t \in MonadicMaybes
  /\ \E f \in MaybeReturning(this.t) :
       Record(Entry("chain", this.t, "impl", this, f, MaybeChain(this, f)))

\* The operators called the way a class delegates to them: the variant test,
\* the slot and the constructors of the receiver are handed over.
CallOrElseMonad ==
  /\ this.t = "MatchMaybe"
  /\ \E h \in MaybeReturning(this.t) :
       Record(Entry("orElse", "operators", "impl", this, h,
                    or_else_monad(MatchMaybe_isJust(this), Maybe_Just(this.t, this.value), h)))

CallChainMonad ==
  /\ this.t = "MatchMaybe"
  /\ \E f \in MaybeReturning(this.t) :
       Record(Entry("chain", "operators", "impl", this, f,
                    chain_monad(MatchMaybe_isJust(this), this.value, Maybe_Nothing(this.t), f)))

MaybeCallMatch ==
  /\ this.t = "EarlyMaybe"
  /\ \E j, o \in MaybeHandlers :
       Record(Entry("match", this.t, "impl", this, <<j, o>>, EarlyMaybe_match(this, j, o)))

MaybeCallDo ==
  /\ this.t = "EarlyMaybe"
  /\ \E a \in {Fn("sync", "const", Undefined), Fn("sync", "throw", Boom)} :
       Record(Entry("do", this.t, "impl", this, a, EarlyMaybe_do(this, a)))

MaybeCallGetOrDo ==
  /\ this.t = "EarlyMaybe"
  /\ \E a \in MaybeHandlers :
       Record(Entry("getOrDo", this.t, "impl", this, a, EarlyMaybe_getOrDo(this, a)))

\* The pending asynchronous callback of the last call completes.  When the
\* combinator returned the callback's own promise (ref = "cb"), the returned
\* promise is that same object and settles with it.
SettleCallback ==
  \E w \in Outstanding :
    LET e == Pick(w)
    IN /\ e # NoCall
       /\ IsPending(e.cbret)
       /\ e.cbret.src = "async"
       /\ LET p == Settle(e.cbret.will)
          IN Update(w, [e EXCEPT !.cbret = p,
                                 !.out = IF e.ref = "cb" THEN Return(p) ELSE @])

\* The reaction registered by transform() with result.then(...) runs once
\* the callback's promise has settled.
RunThen ==
  \E w \in Outstanding :
    LET e == Pick(w)
    IN /\ e # NoCall
       /\ e.op = "transform"
       /\ e.impl = "ts"
       /\ e.out.c = "return"
       /\ IsPending(e.out.v)
       /\ e.out.v.src = "then"
       /\ IsSettled(e.cbret)
       /\ Update(w, [e EXCEPT !.out =
                       IF e.cbret.st = "fulfilled"
                       THEN Return(Fulfilled(Optional_transform_then(e.cbret.v)))
                       ELSE Return(Rejected(e.cbret.v))])

\* The caller continues the chain on the container the last call returned
\* (after awaiting it when the call returned a promise).
Awaited(out) ==
  IF out.c # "return" THEN NoObject
  ELSE IF IsPromise(out.v)
       THEN IF out.v.st = "fulfilled" THEN out.v.v ELSE NoObject
       ELSE out.v

Continue ==
  /\ last # NoCall
  /\ n < MaxChain
  /\ Awaited(last.out).t \in {"Optional", "Result", "nil", "some", "gleam.Ok", "gleam.Error",
                              "success", "failure", "Maybe", "EarlyMaybe",
                              "MatchMaybe", "GleamMaybe"}
  /\ this # Awaited(last.out)
  /\ this' = Awaited(last.out)
  /\ UNCHANGED <<made, prev, last, n>>

(***************************************************************************)
(* Properties                                                             *)
(***************************************************************************)
\* The two variants of an Optional receiver (TypeScript object or Swift value)
IsSome(o) == (o.t = "Optional" /\ o.value \notin Nothing) \/ o.t = "some"
IsNone(o) == (o.t = "Optional" /\ o.value \in Nothing) \/ o.t = "nil"
PayloadOf(o) == IF o.t = "Optional" THEN o.value ELSE o.x

\* The call e returned what running callback f on args produces: at once
\* for a synchronous callback, and as the settled value of the returned
\* promise (pending until then) for an asynchronous one.
ReturnsResultOf(e, f, args) ==
  IF f.mode = "sync" THEN e.out = Body(f, args)
  ELSE /\ e.out.c = "return"
       /\ IsPromise(e.out.v)
       /\ IsSettled(e.out.v) => e.out.v = Settle(Body(f, args))

\* C1: Some(v).otherwise(fallback) returns v for every fallback form (plain
\* value, synchronous provider, asynchronous provider) and the provider is
\* invoked zero times.
C1_SomeOtherwiseReturnsPayload ==
  (last.op = "otherwise" /\ IsSome(last.recv)) =>
    /\ last.calls = <<>>
    /\ last.cbret = NotCalled
    /\ last.out.c = "return"
    /\ Awaited(last.out) = PayloadOf(last.recv)
    /\ last.impl = "ts" => last.out.v = PayloadOf(last.recv)

C1_Witness ==
  /\ last.op = "otherwise"
  /\ last.impl = "ts"
  /\ IsSome(last.recv)
  /\ IsFunction(last.arg)
  /\ last.arg.mode = "async"
  /\ last.out = Return(Num(0))

\* C2: None().otherwise(fallback) is fallback itself for a plain value and
\* the provider's result for a zero-argument provider, which is evaluated
\* exactly once.
C2_NoneOtherwiseReturnsFallback ==
  (last.op = "otherwise" /\ IsNone(last.recv)) =>
    IF IsFunction(last.arg)
    THEN /\ last.calls = <<Call(last.arg, <<>>)>>
         /\ ReturnsResultOf(last, last.arg, <<>>)
    ELSE /\ last.calls = <<>>
         /\ last.out = Return(last.arg)

C2_Witness ==
  /\ last.op = "otherwise"
  /\ last.impl = "ts"
  /\ IsNone(last.recv)
  /\ last.arg = Fn("async", "const", Num(0))
  /\ last.out = Return(Fulfilled(Num(0)))
  /\ Len(last.calls) = 1

\* What a synchronous transformer returned for the payload of a Some receiver
TransformerReturned(e) == Body(e.arg, <<PayloadOf(e.recv)>>).v
SyncTransformOnSome(e) ==
  /\ e.op = "transform"
  /\ IsSome(e.recv)
  /\ e.arg.mode = "sync"
  /\ Body(e.arg, <<PayloadOf(e.recv)>>).c = "return"
IsContainerValue(w) == w.t \in {"Optional", "nil", "some"}
WrappedAsSome(e, w) ==
  /\ e.out.c = "return"
  /\ IsSome(e.out.v)
  /\ PayloadOf(e.out.v) = w

\* C3 as stated: Some(v).transform(f) is Some(w) when f(v) is a plain value
\* w, and is the Optional f(v) itself when f(v) is an Optional.
C3_Original_TransformWrapsEveryPlainValue ==
  SyncTransformOnSome(last) =>
    IF IsContainerValue(TransformerReturned(last))
    THEN last.out = Return(TransformerReturned(last))
    ELSE WrappedAsSome(last, TransformerReturned(last))

\* C3 amended: Some(v).transform(f) is Some(w) when f(v) is a plain value w
\* other than null and undefined, is None when f(v) is null or undefined,
\* and is the Optional f(v) itself (never nested) when f(v) is an Optional.
C3_TransformWrapsOrFlattens ==
  SyncTransformOnSome(last) =>
    IF IsContainerValue(TransformerReturned(last))
    THEN last.out = Return(TransformerReturned(last))
    ELSE IF TransformerReturned(last) \in Nothing
         THEN last.out.c = "return" /\ IsNone(last.out.v)
         ELSE WrappedAsSome(last, TransformerReturned(last))

C3_Witness ==
  /\ SyncTransformOnSome(last)
  /\ last.impl = "ts"
  /\ last.arg = Fn("sync", "const", Optional_Some(Num(MaxNum)))
  /\ last.out = Return(Optional_Some(Num(MaxNum)))
  /\ prev.op = "transform"
  /\ prev.arg = Fn("sync", "const", Num(0))
  /\ prev.out = Return(Optional_Some(Num(0)))

\* C4: transform(f) on None returns None and invokes f zero times, for a
\* synchronous and for an asynchronous f.
C4_TransformOnNone ==
  (last.op = "transform" /\ IsNone(last.recv)) =>
    /\ last.calls = <<>>
    /\ last.cbret = NotCalled
    /\ last.out.c = "return"
    /\ IsNone(Awaited(last.out))

C4_Witness ==
  /\ last.op = "transform"
  /\ last.impl = "ts"
  /\ IsNone(last.recv)
  /\ last.arg.mode = "async"
  /\ last.out = Return(Optional_None)

\* C5: on Some, optionally(alternative) returns the receiver itself and a
\* provider is invoked zero times; on None the result is the alternative,
\* or the result of the provider, which is invoked exactly once.
C5_Optionally ==
  last.op = "optionally" =>
    IF IsSome(last.recv)
    THEN /\ last.calls = <<>>
         /\ last.ref = "this"
         /\ last.out.c = "return"
         /\ Awaited(last.out) = last.recv
         /\ last.impl = "ts" => last.out.v = last.recv
    ELSE IF IsFunction(last.arg)
         THEN /\ last.calls = <<Call(last.arg, <<>>)>>
              /\ ReturnsResultOf(last, last.arg, <<>>)
         ELSE /\ last.calls = <<>>
              /\ last.ref = "arg"
              /\ last.out = Return(last.arg)

C5_Witness ==
  /\ prev.op = "optionally"
  /\ prev.impl = "ts"
  /\ IsNone(prev.recv)
  /\ prev.arg = Fn("async", "const", Optional_Some(Num(MaxNum)))
  /\ prev.out = Return(Fulfilled(Optional_Some(Num(MaxNum))))
  /\ Len(prev.calls) = 1
  /\ last.op = "optionally"
  /\ IsSome(last.recv)
  /\ IsFunction(last.arg)
  /\ last.out = Return(last.recv)

\* C6: when(handlers) invokes at most one handler, once: the `some` handler
\* with the payload and only on Some, the `none` handler only on None; and a
\* promise returned by when for an asynchronous handler is settled only
\* after that handler has settled.
C6_WhenDispatch ==
  (last.op = "when" /\ (IsSome(last.recv) \/ IsNone(last.recv))) =>
    /\ Len(last.calls) <= 1
    /\ last.calls # <<>> =>
         last.calls[1] = IF IsSome(last.recv)
                         THEN Call(last.arg.some, <<PayloadOf(last.recv)>>)
                         ELSE Call(last.arg.none, <<>>)
    /\ (last.calls # <<>> /\ last.calls[1].fn.mode = "async") =>
         /\ last.out.c = "return"
         /\ IsPromise(last.out.v)
         /\ IsSettled(last.out.v) => IsSettled(last.cbret)

C6_Witness ==
  /\ last.op = "when"
  /\ last.impl = "ts"
  /\ IsSome(last.recv)
  /\ last.arg.none # Undefined
  /\ Len(last.calls) = 1
  /\ last.calls[1].fn.mode = "async"
  /\ IsSettled(last.out.v)

\* C7: FromNullable(x).otherwise(d) is x when x is neither null nor
\* undefined (0, '' and false included) and d when x is null or undefined.
C7_FromNullableOtherwise ==
  (made.factory = "FromNullable" /\ n = 1 /\ last.op = "otherwise" /\ ~IsFunction(last.arg)) =>
    last.out = Return(IF made.x \in Nothing THEN last.arg ELSE made.x)

C7_Witness ==
  /\ made.factory = "FromNullable"
  /\ made.x = Str("")
  /\ n = 1
  /\ last.op = "otherwise"
  /\ last.arg = Num(MaxNum)
  /\ last.out = Return(Str(""))


\* The Results the state holds: the current receiver and what the last call
\* returned (awaited when it returned a promise).
ResultsHeld ==
  {r \in {this, IF last = NoCall THEN NoObject ELSE Awaited(last.out)} : r.t = "Result"}

\* C8: every Result made by Ok(v) (Ok() included), Error(e), Try,
\* FromPromise, map, chain, mapError or orElse is in exactly one variant:
\* isOk() and isError() never agree; Ok(v).isOk() and Error(e).isError() are
\* true.
C8_ExactlyOneVariant ==
  /\ \A r \in ResultsHeld : Result_isOk(r) # Result_isError(r)
  /\ (n = 0 /\ made.factory = "Ok") => Result_isOk(this) /\ ~Result_isError(this)
  /\ (n = 0 /\ made.factory = "Error") => Result_isError(this) /\ ~Result_isOk(this)
  /\ (prev.op = "isOk" /\ last.op = "isError" /\ last.impl = "ts" /\ prev.recv = last.recv) =>
       prev.out.v.b # last.out.v.b

C8_Witness ==
  /\ made = [factory |-> "Ok", x |-> Undefined]
  /\ prev.op = "map"
  /\ last.op = "isError"
  /\ last.recv = prev.out.v
  /\ last.out = Return(Bool(FALSE))
  /\ ResultsHeld # {}

\* C9: Ok(v).map(f).getOrElse(d) is f(v); Error(e).map(f) is an Error
\* carrying the same e with f invoked zero times, so
\* Error(e).map(f).getOrElse(d) is d.
C9_MapThenGetOrElse ==
  /\ (n = 1 /\ made.factory = "Error" /\ last.op = "map") =>
       /\ last.calls = <<>>
       /\ last.out.c = "return"
       /\ Result_isError(last.out.v)
       /\ last.out.v.error = made.x
  /\ (n = 2 /\ prev.op = "map" /\ last.op = "getOrElse" /\ last.recv = prev.out.v) =>
       /\ made.factory = "Ok" =>
            /\ prev.calls = <<Call(prev.arg, <<made.x>>)>>
            /\ last.out = Body(prev.arg, <<made.x>>)
       /\ made.factory = "Error" => last.out = Return(last.arg)

C9_Witness ==
  /\ n = 2
  /\ made = [factory |-> "Ok", x |-> Num(MaxNum)]
  /\ prev.op = "map"
  /\ prev.arg = Fn("sync", "succ", Undefined)
  /\ last.op = "getOrElse"
  /\ last.recv = prev.out.v
  /\ last.arg = Num(0)
  /\ last.out = Return(Num(MaxNum + 1))

\* C10: Ok(v).chain(f) is exactly the Result f(v), with no extra wrapping;
\* Error(e).chain(f) is an Error carrying e and f is invoked zero times.
C10_Chain ==
  (n = 1 /\ last.op = "chain") =>
    /\ made.factory = "Ok" =>
         /\ last.calls = <<Call(last.arg, <<made.x>>)>>
         /\ last.out = Body(last.arg, <<made.x>>)
    /\ made.factory = "Error" =>
         /\ last.calls = <<>>
         /\ last.out.c = "return"
         /\ Result_isError(last.out.v)
         /\ last.out.v.error = made.x
    /\ (made.factory = "gleam" /\ made.x.t = "gleam.Ok") =>
         /\ last.calls = <<Call(last.arg, <<made.x.v>>)>>
         /\ last.out = Body(last.arg, <<made.x.v>>)
    /\ (made.factory = "gleam" /\ made.x.t = "gleam.Error") =>
         /\ last.calls = <<>>
         /\ last.out = Return(GleamError(made.x.e))

C10_Witness ==
  /\ n = 1
  /\ made = [factory |-> "Ok", x |-> Num(0)]
  /\ last.op = "chain"
  /\ last.arg = Fn("sync", "const", Result_Error(Str("handler error")))
  /\ last.out = Return(Result_Error(Str("handler error")))
  /\ last.ref = "cb"

\* C11: the catching factories (TypeScript Result.Try, Swift Result.Catching,
\* synchronous and asynchronous) never raise to their caller: when the body
\* returns v the call returns Ok(v) / success(v), and when the body raises a
\* fault x the call returns an Error / failure Result wrapping x (x itself,
\* or for Try the string form of a fault that is not an Error object).
C11_CatchingNeverPropagates ==
  last.op \in {"Try", "Catching"} =>
    /\ last.calls = <<Call(last.arg, <<>>)>>
    /\ last.out.c = "return"
    /\ last.impl = "ts" =>
         IF Body(last.arg, <<>>).c = "return"
         THEN last.out.v = Result_Ok(Body(last.arg, <<>>).v)
         ELSE /\ Result_HasInstance(last.out.v)
              /\ Result_isError(last.out.v)
              /\ last.out.v.error \in {Body(last.arg, <<>>).v, String(Body(last.arg, <<>>).v)}
    /\ (last.impl = "swiftResult" /\ (last.ov = "sync" \/ IsSettled(last.out.v))) =>
         Awaited(last.out) = IF Body(last.arg, <<>>).c = "return"
                             THEN SwiftSuccess(Body(last.arg, <<>>).v)
                             ELSE SwiftFailure(Body(last.arg, <<>>).v)

\* C12: the promise Result.FromPromise(p) returns is never rejected: once
\* settled it is fulfilled with Ok(v) when p was fulfilled with v and with an
\* Error Result when p was rejected.
C12_FromPromiseNeverRejects ==
  last.op = "FromPromise" =>
    /\ last.out.c = "return"
    /\ IsPromise(last.out.v)
    /\ last.out.v.st # "rejected"
    /\ IsSettled(last.out.v) =>
         /\ IsSettled(last.cbret)
         /\ IF last.cbret.st = "fulfilled"
            THEN last.out.v = Fulfilled(Result_Ok(last.cbret.v))
            ELSE /\ Result_HasInstance(last.out.v.v)
                 /\ Result_isError(last.out.v.v)

\* A Swift call has returned to its caller: a synchronous overload at once,
\* an asynchronous one when its pending call has completed.
SwiftReturned(e) ==
  /\ e.out.c = "return"
  /\ ~IsPending(e.out.v)

\* C13: success(v).recover(r) equals success(v) and r is invoked zero times,
\* for every overload of recover (value-returning or Result-returning,
\* synchronous or asynchronous).
C13_RecoverOnSuccess ==
  (last.op = "recover" /\ last.recv.t = "success") =>
    /\ last.calls = <<>>
    /\ last.cbret = NotCalled
    /\ SwiftReturned(last)
    /\ Awaited(last.out) = SwiftSuccess(last.recv.v)

C13_Witness ==
  /\ last.op = "recover"
  /\ last.recv = SwiftSuccess(Num(0))
  /\ last.ov = "async_result"
  /\ last.arg.k = SwiftSuccess(Num(MaxNum))
  /\ last.out = Return(Fulfilled(SwiftSuccess(Num(0))))

\* C14: failure(e).recover(r) with a value-returning r (synchronous or
\* asynchronous) invokes r once with e; when r(e) is nil the result is a
\* failure carrying the original e, and when r(e) is a present value w the
\* result is success(w).
C14_RecoverOnFailure ==
  (last.op = "recover" /\ last.recv.t = "failure" /\ last.ov \in {"plain", "async"}) =>
    /\ last.calls = <<Call(last.arg, <<last.recv.e>>)>>
    /\ last.out.c = "return"
    /\ SwiftReturned(last) =>
         Awaited(last.out) =
           IF Body(last.arg, <<last.recv.e>>).v = SwiftNil
           THEN SwiftFailure(last.recv.e)
           ELSE SwiftSuccess(Body(last.arg, <<last.recv.e>>).v.x)

C14_Witness ==
  /\ last.op = "recover"
  /\ last.recv = SwiftFailure(SwiftError("not_found"))
  /\ last.arg = Fn("async", "const", SwiftNil)
  /\ last.out = Return(Fulfilled(SwiftFailure(SwiftError("not_found"))))
  /\ prev.op = "recover"
  /\ prev.arg = Fn("sync", "const", SwiftNil)
  /\ prev.out = Return(last.recv)

\* C15: reframe(t) applies t only to the error payload: success(v).reframe(t)
\* is success(v) with t invoked zero times; failure(e).reframe(t) invokes t
\* once with e and is failure(t(e)) when t returns a plain error and exactly
\* the Result t(e) when t returns a Result.
C15_Reframe ==
  last.op = "reframe" =>
    /\ last.out.c = "return"
    /\ last.recv.t = "success" =>
         /\ last.calls = <<>>
         /\ SwiftReturned(last)
         /\ Awaited(last.out) = SwiftSuccess(last.recv.v)
    /\ last.recv.t = "failure" =>
         /\ last.calls = <<Call(last.arg, <<last.recv.e>>)>>
         /\ SwiftReturned(last) =>
              Awaited(last.out) =
                IF IsSwiftResult(Body(last.arg, <<last.recv.e>>).v)
                THEN Body(last.arg, <<last.recv.e>>).v
                ELSE SwiftFailure(Body(last.arg, <<last.recv.e>>).v)

C15_Witness ==
  /\ last.op = "reframe"
  /\ last.recv = SwiftFailure(SwiftError("denied"))
  /\ last.arg = Fn("sync", "const", SwiftSuccess(Num(MaxNum)))
  /\ last.out = Return(SwiftSuccess(Num(MaxNum)))
  /\ prev.op = "reframe"
  /\ prev.recv = SwiftFailure(SwiftError("denied"))
  /\ prev.arg = Fn("async", "const", SwiftError("denied"))
  /\ prev.out = Return(Fulfilled(SwiftFailure(SwiftError("denied"))))

\* C16: every overload of Result.when returns a Result equal to the
\* receiver; it invokes at most one handler, once: the handler of the
\* receiver's variant with that variant's payload (when one is given), never
\* the handler of the other variant.
C16_ResultWhen ==
  (last.op = "when" /\ IsSwiftResult(last.recv)) =>
    /\ last.out.c = "return"
    /\ SwiftReturned(last) => Awaited(last.out) = last.recv
    /\ last.calls =
         IF last.recv.t = "success"
         THEN IF last.arg.success = Undefined THEN <<>>
              ELSE <<Call(last.arg.success, <<last.recv.v>>)>>
         ELSE IF last.arg.failure = Undefined THEN <<>>
              ELSE <<Call(last.arg.failure, <<last.recv.e>>)>>

C16_Witness ==
  /\ last.op = "when"
  /\ last.recv = SwiftFailure(SwiftError("denied"))
  /\ last.arg.success # Undefined
  /\ last.arg.failure # Undefined
  /\ last.arg.failure.mode = "async"
  /\ Len(last.calls) = 1
  /\ last.out = Return(Fulfilled(last.recv))
  /\ prev.op = "when"
  /\ prev.arg.success = Undefined
  /\ prev.calls # <<>>
  /\ prev.out = Return(last.recv)

\* C17: success(v).transmute() is some(v) and failure(e).transmute() is nil;
\* some(v).transmute(as: e) is success(v) and nil.transmute(as: e) is
\* failure(e); so o.transmute(as: e).transmute() equals o for every Optional
\* o and error e; failure(e).transmute(.error) is some(e) and
\* success(v).transmute(.error) is nil.
C17_TransmuteBridge ==
  last.op = "transmute" =>
    /\ last.ov = "value" =>
         last.out = Return(IF last.recv.t = "success" THEN SwiftSome(last.recv.v) ELSE SwiftNil)
    /\ last.ov = "as" =>
         last.out = Return(IF last.recv = SwiftNil THEN SwiftFailure(last.arg)
                           ELSE SwiftSuccess(last.recv.x))
    /\ last.ov = "error" =>
         last.out = Return(IF last.recv.t = "failure" THEN SwiftSome(last.recv.e) ELSE SwiftNil)
    /\ (last.ov = "value" /\ prev.op = "transmute" /\ prev.ov = "as" /\ last.recv = prev.out.v) =>
         last.out = Return(prev.recv)

C17_Witness ==
  /\ made = [factory |-> "swift", x |-> SwiftSome(Num(0))]
  /\ prev.op = "transmute"
  /\ prev.ov = "as"
  /\ prev.recv = made.x
  /\ last.op = "transmute"
  /\ last.ov = "value"
  /\ last.recv = prev.out.v
  /\ last.out = Return(SwiftSome(Num(0)))

\* C18: Result.otherwise on success(v) returns v and evaluates no fallback
\* of any form; on failure(e) it returns the plain fallback, or the result
\* of the zero-argument provider, or the result of the error-receiving
\* provider called with exactly e, the provider being invoked once.
C18_ResultOtherwise ==
  (last.op = "otherwise" /\ IsSwiftResult(last.recv)) =>
    /\ last.out.c = "return"
    /\ last.recv.t = "success" =>
         /\ last.calls = <<>>
         /\ last.cbret = NotCalled
         /\ SwiftReturned(last)
         /\ Awaited(last.out) = last.recv.v
    /\ (last.recv.t = "failure" /\ ~IsFunction(last.arg)) =>
         /\ last.calls = <<>>
         /\ last.out = Return(last.arg)
    /\ (last.recv.t = "failure" /\ IsFunction(last.arg)) =>
         /\ last.calls =
              <<Call(last.arg, IF last.ov \in {"error_provider", "error_async"}
                               THEN <<last.recv.e>> ELSE <<>>)>>
         /\ SwiftReturned(last) => Awaited(last.out) = Body(last.arg, last.calls[1].args).v

C18_Witness ==
  /\ last.op = "otherwise"
  /\ last.recv = SwiftFailure(SwiftError("denied"))
  /\ last.ov = "error_async"
  /\ last.calls = <<Call(last.arg, <<SwiftError("denied")>>)>>
  /\ last.out = Return(Fulfilled(Num(MaxNum)))
  /\ prev.op = "otherwise"
  /\ prev.recv = last.recv
  /\ prev.ov = "provider"
  /\ prev.out = Return(Num(MaxNum))

\* The combinators of the TypeScript classes that take a callback
Combinators ==
  {"map", "chain", "orElse", "matchWith", "transform", "otherwise", "optionally", "when"}

\* The fault (if any) raised by the callback the call e invoked last
FaultOf(e) == Body(e.calls[Len(e.calls)].fn, e.calls[Len(e.calls)].args)

\* C19: outside Try and FromPromise, a fault raised by a caller-supplied
\* callback inside map, chain, orElse, matchWith, transform, otherwise,
\* optionally or when reaches the combinator's caller unmodified: the call
\* raises that very fault (a synchronous callback), or returns a promise that
\* rejects with it (an asynchronous one); it never returns an Error / None.
C19_FaultsPropagate ==
  (last.op \in Combinators /\ last.impl = "ts" /\ last.calls # <<>> /\ FaultOf(last).c = "throw") =>
    IF last.calls[Len(last.calls)].fn.mode = "sync"
    THEN last.out = Throw(FaultOf(last).v)
    ELSE /\ last.out.c = "return"
         /\ IsPromise(last.out.v)
         /\ IsSettled(last.out.v) => last.out.v = Rejected(FaultOf(last).v)

C19_Witness ==
  /\ last.op = "transform"
  /\ last.impl = "ts"
  /\ last.arg = Fn("async", "throw", Boom)
  /\ last.out = Return(Rejected(Boom))
  /\ prev.op = "when"
  /\ prev.calls # <<>>
  /\ prev.out = Throw(Boom)

\* C20: getOrThrow returns the wrapped value when the Maybe is Just and
\* raises an Error when it is Nothing, with the supplied message when the
\* caller gave one; and it is the only Maybe operation that raises on
\* Nothing: any other operation called on Nothing raises only the fault of a
\* caller-supplied callback it invoked.
C20_GetOrThrow ==
  /\ (last.op = "getOrThrow" /\ MaybeIsJust(last.recv)) =>
       /\ last.out = Return(MaybePayload(last.recv))
       /\ last.calls = <<>>
  /\ (last.op = "getOrThrow" /\ MaybeIsNothing(last.recv)) =>
       /\ last.out.c = "throw"
       /\ IsErrorObject(last.out.v)
       /\ last.arg # Undefined => last.out.v.message = last.arg.s
  /\ (last # NoCall /\ last.impl \in MaybeClasses /\ last.op # "getOrThrow"
        /\ MaybeIsNothing(last.recv) /\ last.out.c = "throw") =>
       /\ last.calls # <<>>
       /\ last.out = FaultOf(last)

C20_Witness ==
  /\ last.op = "getOrThrow"
  /\ last.recv = Maybe_Nothing("Maybe")
  /\ last.arg = Str("custom")
  /\ last.out = Throw(ErrorObject("custom"))
  /\ prev.op = "getOrThrow"
  /\ prev.arg = Undefined
  /\ prev.out = Throw(ErrorObject("tried to get a maybe value that was nothing"))

\* C22: for every new error n, Error(e).mapError(n) is an Error whose
\* payload is n whatever e was, and Ok(v).mapError(n) is an Ok still holding
\* v (TypeScript mapError and Gleam map_error_replace).
C22_MapError ==
  last.op = "mapError" =>
    /\ last.calls = <<>>
    /\ last.out.c = "return"
    /\ (last.impl = "ts" /\ Result_isError(last.recv)) =>
         /\ Result_isError(last.out.v)
         /\ last.out.v.error = last.arg
    /\ (last.impl = "ts" /\ Result_isOk(last.recv)) =>
         /\ Result_isOk(last.out.v)
         /\ last.out.v.value = last.recv.value
    /\ last.impl = "gleam" =>
         last.out.v = IF last.recv.t = "gleam.Error" THEN GleamError(last.arg)
                      ELSE GleamOk(last.recv.v)

C22_Witness ==
  /\ last.op = "mapError"
  /\ last.impl = "ts"
  /\ last.recv = Result_Error(Str("oops"))
  /\ last.arg = ErrorObject("test")
  /\ last.out = Return(Result_Error(ErrorObject("test")))
  /\ prev.op = "mapError"
  /\ prev.recv = last.recv
  /\ prev.arg = Str("oops")
  /\ prev.out = Return(Result_Error(Str("oops")))

\* The value raised by the body of Try, or the reason the promise handed to
\* FromPromise was rejected with
CaughtBy(e) == IF e.op = "Try" THEN Body(e.arg, <<>>).v ELSE e.cbret.v

\* C28: every Error Result produced by Result.Try or Result.FromPromise
\* carries an Error object or a string: a raised Error object is kept as the
\* same object, any other raised or rejected value x is stored as String(x).
C28_CaughtPayload ==
  (last.op \in {"Try", "FromPromise"} /\ Awaited(last.out).t = "Result"
     /\ Result_isError(Awaited(last.out))) =>
    /\ Awaited(last.out).error.t \in {"Error", "string"}
    /\ Awaited(last.out).error =
         IF IsErrorObject(CaughtBy(last)) THEN CaughtBy(last) ELSE String(CaughtBy(last))

C28_Witness ==
  /\ last.op = "FromPromise"
  /\ last.cbret = Rejected(Null)
  /\ last.out = Return(Fulfilled(Result_Error(Str("null"))))
  /\ prev.op = "Try"
  /\ prev.arg = Fn("sync", "throw", ErrorObject("test"))
  /\ prev.out = Return(Result_Error(ErrorObject("test")))

\* C29: for an Optional o and a transformer f, awaiting
\* o.transform(async x => f(x)) yields what o.transform(f) yields (the same
\* Optional, flattened or wrapped alike, or the same fault), and on None the
\* asynchronous transformer is not invoked.  Checked on two calls issued on
\* the same receiver with the same transformer body.
C29_AsyncTransformAgrees ==
  /\ (last.op = "transform" /\ prev.op = "transform" /\ prev.impl = last.impl
        /\ prev.recv = last.recv /\ prev.arg.mode = "sync"
        /\ last.arg = [prev.arg EXCEPT !.mode = "async"]) =>
       /\ last.out.c = "return"
       /\ ~IsPending(last.out.v) =>
            IF prev.out.c = "throw" THEN last.out.v = Rejected(prev.out.v)
            ELSE Awaited(last.out) = prev.out.v
  /\ (last.op = "transform" /\ last.arg.mode = "async" /\ IsNone(last.recv)) =>
       /\ last.calls = <<>>
       /\ Awaited(last.out) = IF last.impl = "ts" THEN Optional_None ELSE SwiftNil

C29_Witness ==
  /\ last.op = "transform"
  /\ last.impl = "ts"
  /\ last.recv = Optional_Some(Num(0))
  /\ prev.op = "transform"
  /\ prev.recv = last.recv
  /\ prev.arg = Fn("sync", "const", Optional_Some(Num(MaxNum)))
  /\ prev.out = Return(Optional_Some(Num(MaxNum)))
  /\ last.arg = Fn("async", "const", Optional_Some(Num(MaxNum)))
  /\ last.out = Return(Fulfilled(Optional_Some(Num(MaxNum))))

C26_MaybeHandlers ==
  (last.op \in {"orElse", "map", "chain"} /\ IsMaybe(last.recv)) =>
    /\ (last.op = "orElse" /\ MaybeIsJust(last.recv)) =>
         /\ last.calls = <<>>
         /\ last.out = Return(last.recv)
    /\ (last.op \in {"map", "chain"} /\ MaybeIsJust(last.recv)) =>
         last.calls = <<Call(last.arg, <<MaybePayload(last.recv)>>)>>
    /\ (last.op \in {"map", "chain"} /\ MaybeIsNothing(last.recv)) =>
         /\ last.calls = <<>>
         /\ last.out = Return(MaybeNothing(last.recv.t))
    /\ (last.op = "orElse" /\ MaybeIsNothing(last.recv)) =>
         /\ last.calls = <<Call(last.arg, <<>>)>>
         /\ last.out = Invoke(last.arg, <<>>)

\* orElse then map on one Just: the first leaves its handler alone, the
\* second runs its handler on the wrapped value
C26_Witness ==
  /\ n = 2
  /\ prev.op = "orElse"
  /\ prev.impl = "MatchMaybe"
  /\ prev.recv = Maybe_Just("MatchMaybe", Num(0))
  /\ prev.calls = <<>>
  /\ prev.out = Return(prev.recv)
  /\ last.op = "map"
  /\ last.recv = prev.recv
  /\ last.arg = Fn("sync", "succ", Undefined)
  /\ last.calls = <<Call(last.arg, <<Num(0)>>)>>
  /\ last.out = Return(Maybe_Just("MatchMaybe", Num(1)))

\* The null-checking Maybe holding what a delegating Maybe holds.  The two
\* classes build corresponding objects from the same calls for as long as
\* they agree on isJust(): Just(v) stores v / Some(v), Nothing() stores
\* undefined / None, and map, chain and orElse branch on isJust() only.
NullChecking(self) ==
  NewMaybe("Maybe", IF option_is_just(self.inner) THEN self.inner.v ELSE Undefined)

\* What the null-checking class answers to the observation e
NullCheckingOutcome(e) ==
  CASE e.op = "isJust" -> Return(Bool(Maybe_isJust(NullChecking(e.recv))))
    [] e.op = "isNothing" -> Return(Bool(Maybe_isNothing(NullChecking(e.recv))))
    [] e.op = "getOrElse" -> Maybe_getOrElse(NullChecking(e.recv), e.arg).out
    [] e.op = "matchWith" -> Maybe_matchWith(NullChecking(e.recv), e.arg).out
    [] OTHER -> Maybe_getOrThrow(NullChecking(e.recv), e.arg).out

\* C30: the Maybe class that delegates to the compiled option helpers is
\* observationally equivalent to the null-checking Maybe class: after the
\* same Just, Nothing, FromNullable, map, chain and orElse calls (handlers
\* returning null included), isJust, isNothing, getOrElse, matchWith and
\* getOrThrow give the same outcome in both.
C30_GleamMaybeEquivalent ==
  (last # NoCall /\ last.impl = "GleamMaybe"
     /\ last.op \in {"isJust", "isNothing", "getOrElse", "matchWith", "getOrThrow"}) =>
    last.out = NullCheckingOutcome(last)

\* The two classes agree on every Maybe that does not hold Some(null) or
\* Some(undefined)
C30_EquivalentOnPresent ==
  (last # NoCall /\ last.impl = "GleamMaybe"
     /\ last.op \in {"isJust", "isNothing", "getOrElse", "matchWith", "getOrThrow"}
     /\ ~(option_is_just(last.recv.inner) /\ LooseEqNull(last.recv.inner.v))) =>
    last.out = NullCheckingOutcome(last)

\* C27: in the early two-slot Result, for every v and e: Ok(v).isOk() is
\* true and isError() is false, Error(e).isError() is true and isOk() is
\* false, and getOrElse(d) returns v on Ok(v) and d on Error(e).
C27_EarlyResultVariants ==
  (last # NoCall /\ last.impl = "EarlyResult") =>
    /\ (made.factory = "EarlyResult.Ok" /\ last.op = "isOk") => last.out = Return(Bool(TRUE))
    /\ (made.factory = "EarlyResult.Ok" /\ last.op = "isError") => last.out = Return(Bool(FALSE))
    /\ (made.factory = "EarlyResult.Ok" /\ last.op = "getOrElse") => last.out = Return(made.x)
    /\ (made.factory = "EarlyResult.Error" /\ last.op = "isError") =>
         last.out = Return(Bool(TRUE))
    /\ (made.factory = "EarlyResult.Error" /\ last.op = "isOk") => last.out = Return(Bool(FALSE))
    /\ (made.factory = "EarlyResult.Error" /\ last.op = "getOrElse") =>
         last.out = Return(last.arg)

\* The same statement for payloads other than null and undefined
C27_PresentPayloads ==
  (last # NoCall /\ last.impl = "EarlyResult" /\ ~LooseEqNull(made.x)) =>
    C27_EarlyResultVariants

\* The result() calls recorded
ResultCalls == {e \in {prev, last} : e.op = "result"}

\* C21: Future.FromPromise(p).result() never rejects; once p has settled a
\* result() call resolves to an Ok Result holding p's value if p resolved
\* and to an Error Result if p rejected (or its executor threw); every
\* result() call on one Future resolves to the same Result.
C21_FutureResult ==
  /\ \A e \in ResultCalls :
       IsSettled(e.out.v) =>
         /\ e.out.v.st = "fulfilled"
         /\ IsSettled(made.x)
         /\ made.x.st = "fulfilled" =>
              /\ EarlyResult_isOk(e.out.v.v)
              /\ ~EarlyResult_isError(e.out.v.v)
              /\ e.out.v.v.value = made.x.v
         /\ made.x.st = "rejected" =>
              /\ EarlyResult_isError(e.out.v.v)
              /\ ~EarlyResult_isOk(e.out.v.v)
  /\ \A e, f \in ResultCalls : (IsSettled(e.out.v) /\ IsSettled(f.out.v)) => e.out = f.out

\* The same statement for promises that do not resolve to null or undefined
C21_FutureResultPresent ==
  (made.factory = "Future.FromPromise" /\ IsSettled(made.x) /\ ~LooseEqNull(made.x.v)) =>
    C21_FutureResult

\* No result() call rejects, and the calls on one Future agree
C21_NeverRejects ==
  /\ \A e \in ResultCalls : e.out.c = "return" /\ e.out.v.st # "rejected"
  /\ \A e, f \in ResultCalls : (IsSettled(e.out.v) /\ IsSettled(f.out.v)) => e.out = f.out

\* Once p has settled, the last result() call is eventually resolved
C21_EventuallyResolves ==
  [](((made.factory = "Future.FromPromise" /\ last.op = "result") /\ IsSettled(made.x))
       => <>(last.op = "result" /\ IsSettled(last.out.v)))

\* The callbacks a recorded call started
CallsOf(e) == IF e = NoCall THEN <<>> ELSE e.calls
\* A combinator call whose returned promise has not settled yet
Suspended(e) ==
  /\ e # NoCall
  /\ e.op \notin {"FromPromise", "result"}
  /\ e.out.c = "return"
  /\ IsPending(e.out.v)

\* C23: each combinator call invokes its caller-supplied callback at most
\* once and suspends at one point only, the await of that callback's
\* promise: a call still suspended has started exactly one callback, whose
\* promise it waits for, and its next step completes it once that promise
\* has settled.  Callbacks are started in the step that issues their call
\* and in no other, so of two calls issued in order the first one's
\* callback is started first however the pending callbacks settle.
C23_OncePerCall ==
  /\ [](\A e \in {prev, last} :
          /\ Len(CallsOf(e)) <= 1
          /\ Suspended(e) => (Len(e.calls) = 1 /\ IsPromise(e.cbret)))
  /\ [][/\ n' = n => (CallsOf(prev') = CallsOf(prev) /\ CallsOf(last') = CallsOf(last))
        /\ n' # n => (n' = n + 1 /\ prev' = last)
        /\ \A w \in Outstanding :
             (n' = n /\ Suspended(Pick(w)) /\ IsSettled(Pick(w).cbret) /\ Pick(w)' # Pick(w)) =>
               ~Suspended(Pick(w)')]_vars

\* Two transform calls were issued on one Optional with asynchronous
\* transformers; the second call has completed while the first one's
\* callback is still pending.
C23_Witness ==
  /\ n = 2
  /\ prev.op = "transform"
  /\ prev.impl = "ts"
  /\ last.op = "transform"
  /\ last.recv = prev.recv
  /\ prev.recv = Optional_Some(Num(0))
  /\ Len(prev.calls) = 1
  /\ Len(last.calls) = 1
  /\ IsPending(prev.cbret)
  /\ Suspended(prev)
  /\ IsSettled(last.cbret)
  /\ IsSettled(last.out.v)

Next ==
  \/ MakeSome
  \/ MakeNone
  \/ MakeFromNullable
  \/ CallOtherwise
  \/ CallOptionally
  \/ CallTransform
  \/ CallWhen
  \/ MakeSwiftOptional
  \/ SwiftCallOtherwise
  \/ SwiftCallOptionally
  \/ SwiftCallTransform
  \/ SwiftCallWhen
  \/ SwiftResume
  \/ MakeSwiftResult
  \/ SwiftCallCatching
  \/ SwiftCallRecover
  \/ SwiftCallReframe
  \/ SwiftResultCallWhen
  \/ SwiftResultCallOtherwise
  \/ SwiftResultCallTransmute
  \/ SwiftCallTransmute
  \/ SwiftResultResume
  \/ MakeJust
  \/ MakeNothing
  \/ MakeMaybeFromNullable
  \/ MaybeCallIsJust
  \/ MaybeCallIsNothing
  \/ MaybeCallGetOrElse
  \/ MaybeCallGetOrThrow
  \/ MaybeCallMatchWith
  \/ MaybeCallOrElse
  \/ MaybeCallMap
  \/ MaybeCallChain
  \/ CallOrElseMonad
  \/ CallChainMonad
  \/ MaybeCallMatch
  \/ MaybeCallDo
  \/ MaybeCallGetOrDo
  \/ MakeOk
  \/ MakeError
  \/ CallTry
  \/ CallFromPromise
  \/ FromPromiseResume
  \/ CallIsOk
  \/ CallIsError
  \/ CallMatchWith
  \/ CallGetOrElse
  \/ CallOrElse
  \/ CallMerge
  \/ CallMapError
  \/ CallMap
  \/ CallChain
  \/ MakeEarlyOk
  \/ MakeEarlyError
  \/ EarlyCallIsOk
  \/ EarlyCallIsError
  \/ EarlyCallMatch
  \/ EarlyCallGetOrElse
  \/ EarlyCallGetOrDo
  \/ MakeFuture
  \/ FuturePromiseSettles
  \/ FutureReact
  \/ FutureCallResult
  \/ FutureResultResume
  \/ MakeGleamResult
  \/ GleamCallChain
  \/ GleamCallMapErrorReplace
  \/ SettleCallback
  \/ RunThen
  \/ Continue

Spec == Init /\ [][Next]_vars

\* The job queue runs every reaction and continuation that is ready
FairSpec == Spec /\ WF_vars(FutureReact) /\ WF_vars(FutureResultResume)

====
